---- MODULE Spec2Model ----
(***************************************************************************)
(* Model of the response rendering and code-copy logic of the chat front    *)
(* end: src/response-template.js (hand-written markdown renderer, syntax    *)
(* highlighter, id-based copy), src/public/response-formatter.js            *)
(* (markdown-it based renderer, guarded processResponse) and the copy       *)
(* button script at the head of src/unnamed/part_000.                       *)
(*                                                                         *)
(* A JavaScript string is a sequence of UTF-16 code units.  A code unit is  *)
(* written as a one-character string for printable ASCII, "\n", "\t" and    *)
(* "\r", and as the decimal numeral of its code for every other unit        *)
(* ("233", "8364", "55357"), and for the backtick ("96"), which a TLA+      *)
(* string cannot hold.                                                     *)
(***************************************************************************)
EXTENDS Integers, Sequences, FiniteSets, TLC

VARIABLES
    \* ---- the page and its copy controls (copy interaction) ----
    impl,         \* which scripts the page runs: "template" (response-template.js)
                  \* or "window" (response-formatter.js with the copy button script)
    clipboardApi, \* TRUE when navigator.clipboard exists
    page,         \* the code blocks of the document, in document order
    button,       \* per block, its copy control: [content, styled]
    copies,       \* one record per activation of a copy control: how far it got
    timers,       \* pending setTimeout callbacks, in the order they were set
    clipboard,    \* what the system clipboard holds: [by, text], or NoText
    log,          \* the console.error messages, oldest first
    \* ---- round trip of one fenced block ----
    code,         \* the text between two fences, as the replace callback gets it
    \* ---- rendering a document ----
    parts,        \* the document as it was written: texts and fenced blocks
    formattedResponse, \* the text handed to convertMarkdownToHTML
    htmlResponse,      \* what convertMarkdownToHTML returned, NoHtml before the call
    \* ---- processResponse ----
    request,      \* the arguments of a call of processResponse
    result,       \* how the call ended and with what
    \* ---- the document around the code blocks ----
    readyState,   \* document.readyState: "loading" until DOMContentLoaded has fired
    removed,      \* the blocks taken out of the document, with their controls
    uncaught,     \* the exceptions no handler caught, oldest first
    prism,        \* the languages window.Prism.languages has a grammar for
    textareas     \* the number of textarea elements in document.body

varsPage == <<impl, clipboardApi, page, button, copies, timers, clipboard, log>>
varsRender == <<parts, formattedResponse, htmlResponse>>
varsProcess == <<request, result>>
varsDocument == <<readyState, removed, uncaught, prism>>
vars == <<impl, clipboardApi, page, button, copies, timers, clipboard, log, code,
          parts, formattedResponse, htmlResponse, request, result,
          readyState, removed, uncaught, prism, textareas>>

(***************************************************************************)
(* Sequences                                                               *)
(***************************************************************************)
Min(S) == CHOOSE m \in S : \A k \in S : m <= k
Max(S) == CHOOSE m \in S : \A k \in S : m >= k

RECURSIVE Flatten(_, _, _)
Flatten(ss, lo, hi) ==
    IF lo > hi THEN <<>>
    ELSE IF lo = hi THEN ss[lo]
    ELSE LET mid == (lo + hi) \div 2
         IN Flatten(ss, lo, mid) \o Flatten(ss, mid + 1, hi)

\* the concatenation of a sequence of sequences
Concat(ss) == Flatten(ss, 1, Len(ss))

\* s with every element c replaced by the sequence F(c)
MapConcat(s, F(_)) == IF s = <<>> THEN s ELSE Concat([i \in 1..Len(s) |-> F(s[i])])

\* does p occur in s at position i
StartsWithAt(s, i, p) ==
    /\ i >= 1
    /\ i + Len(p) - 1 <= Len(s)
    /\ \A k \in 1..Len(p) : s[i + k - 1] = p[k]

\* first position >= from where p occurs in s, 0 when there is none
IndexOfFrom(s, p, from) ==
    LET S == {i \in from..Len(s) : StartsWithAt(s, i, p)}
    IN IF S = {} THEN 0 ELSE Min(S)

\* number of (possibly overlapping) occurrences of p in s
Occurrences(s, p) == Cardinality({i \in 1..Len(s) : StartsWithAt(s, i, p)})

Contains(s, p) == \E i \in 1..Len(s) : StartsWithAt(s, i, p)

(***************************************************************************)
(* Characters                                                              *)
(***************************************************************************)
\* the backtick, code 96
Backtick == "96"

\* printable ASCII, codes 32..126 in order
AsciiPrintable ==
    <<" ","!","\"","#","$","%","&","'","(",")","*","+",",","-",".","/",
      "0","1","2","3","4","5","6","7","8","9",":",";","<","=",">","?",
      "@","A","B","C","D","E","F","G","H","I","J","K","L","M","N","O",
      "P","Q","R","S","T","U","V","W","X","Y","Z","[","\\","]","^","_",
      "96","a","b","c","d","e","f","g","h","i","j","k","l","m","n","o",
      "p","q","r","s","t","u","v","w","x","y","z","{","|","}","~">>

\* the code units above ASCII that the model's texts use:
\* U+00E9, U+20AC, a high surrogate (U+D83D) and a low surrogate (U+DE00)
NonAsciiCodes == {233, 8364, 55357, 56832}

AsciiCode == [c \in {AsciiPrintable[k] : k \in 1..Len(AsciiPrintable)} |->
                 31 + CHOOSE k \in 1..Len(AsciiPrintable) : AsciiPrintable[k] = c]

\* charCodeAt
CodeOf(c) ==
    IF c \in DOMAIN AsciiCode THEN AsciiCode[c]
    ELSE IF c = "\n" THEN 10
    ELSE IF c = "\t" THEN 9
    ELSE IF c = "\r" THEN 13
    ELSE CHOOSE n \in NonAsciiCodes : ToString(n) = c

\* String.fromCharCode
CharOf(n) ==
    IF n \in 32..126 THEN AsciiPrintable[n - 31]
    ELSE IF n = 10 THEN "\n"
    ELSE IF n = 9 THEN "\t"
    ELSE IF n = 13 THEN "\r"
    ELSE ToString(n)

Digits == {"0","1","2","3","4","5","6","7","8","9"}
LowerLetters == {AsciiPrintable[k] : k \in 66..91}
UpperLetters == {AsciiPrintable[k] : k \in 34..59}
Letters == LowerLetters \cup UpperLetters
\* \w
WordChars == Letters \cup Digits \cup {"_"}
\* \s (the white space the model's texts use)
SpaceChars == {" ", "\t", "\n", "\r"}
\* what . does not match
LineTerminators == {"\n", "\r"}

\* String.prototype.toLowerCase on one unit
LowerChar(c) == IF c \in UpperLetters THEN CharOf(CodeOf(c) + 32) ELSE c
ToLowerCase(s) == [i \in 1..Len(s) |-> LowerChar(s[i])]

\* String.prototype.trim
Trim(s) ==
    LET K == {i \in 1..Len(s) : s[i] \notin SpaceChars}
    IN IF K = {} THEN <<>> ELSE SubSeq(s, Min(K), Max(K))

\* first position >= i whose unit is not in C (Len(s) + 1 when the run reaches the end)
RunEnd(s, i, C) == Min({j \in i..Len(s) + 1 : j = Len(s) + 1 \/ s[j] \notin C})

\* first position >= i holding a line terminator (Len(s) + 1 when there is none)
LineEnd(s, i) == Min({j \in i..Len(s) + 1 : j = Len(s) + 1 \/ s[j] \in LineTerminators})

\* \b at position i: between s[i-1] and s[i]
WordBoundary(s, i) ==
    LET before == i > 1 /\ i - 1 <= Len(s) /\ s[i - 1] \in WordChars
        after == i >= 1 /\ i <= Len(s) /\ s[i] \in WordChars
    IN before # after

(***************************************************************************)
(* String.prototype.replace with a global regular expression.  A regular    *)
(* expression is given by its matcher M(s, i): the position just after the  *)
(* match that starts at i, or 0 when there is no match at i (no expression  *)
(* of the program matches the empty string where it is used globally).      *)
(* R(s, i, e) is the replacement of the match s[i..e-1].                    *)
(***************************************************************************)
\* the starts of the matches, leftmost first, none overlapping an earlier one
RECURSIVE MatchStarts(_, _)
MatchStarts(ends, from) ==
    LET T == {i \in DOMAIN ends : i >= from}
    IN IF T = {} THEN <<>>
       ELSE LET i == Min(T) IN <<i>> \o MatchStarts(ends, ends[i])

ReplaceAll(s, M(_, _), R(_, _, _)) ==
    LET ends == [i \in {j \in 1..Len(s) : M(s, j) > j} |-> M(s, i)]
        ms == MatchStarts(ends, 1)
        n == Len(ms)
        piece(k) == SubSeq(s, IF k = 1 THEN 1 ELSE ends[ms[k - 1]], ms[k] - 1)
                        \o R(s, ms[k], ends[ms[k]])
    IN IF s = <<>> \/ n = 0 THEN s
       ELSE Concat([k \in 1..n |-> piece(k)]) \o SubSeq(s, ends[ms[n]], Len(s))

\* replace with a regular expression without the g flag: the first match only
ReplaceFirst(s, M(_, _), R(_, _, _)) ==
    LET S == {j \in 1..Len(s) : M(s, j) > j}
    IN IF S = {} THEN s
       ELSE LET i == Min(S)
            IN SubSeq(s, 1, i - 1) \o R(s, i, M(s, i)) \o SubSeq(s, M(s, i), Len(s))

\* the number of matches a global replace would replace
MatchCount(s, M(_, _)) ==
    Len(MatchStarts([i \in {j \in 1..Len(s) : M(s, j) > j} |-> M(s, i)], 1))

(***************************************************************************)
(* btoa(unescape(encodeURIComponent(text))) and its inverse                 *)
(* decodeURIComponent(escape(atob(encoded))):  UTF-8, then base64.          *)
(***************************************************************************)
\* the value of a computation that threw
Threw == <<"threw">>

IsHighSurrogate(c) == CodeOf(c) \in 55296..56319
IsLowSurrogate(c) == CodeOf(c) \in 56320..57343

\* encodeURIComponent throws URIError on a surrogate that is not half of a pair
HasLoneSurrogate(s) ==
    \E i \in 1..Len(s) :
        \/ IsHighSurrogate(s[i]) /\ ~(i < Len(s) /\ IsLowSurrogate(s[i + 1]))
        \/ IsLowSurrogate(s[i]) /\ ~(i > 1 /\ IsHighSurrogate(s[i - 1]))

\* the UTF-8 bytes of one code point
Utf8OfCodePoint(cp) ==
    IF cp < 128 THEN <<cp>>
    ELSE IF cp < 2048 THEN <<192 + (cp \div 64), 128 + (cp % 64)>>
    ELSE IF cp < 65536 THEN <<224 + (cp \div 4096), 128 + ((cp \div 64) % 64), 128 + (cp % 64)>>
    ELSE <<240 + (cp \div 262144), 128 + ((cp \div 4096) % 64),
           128 + ((cp \div 64) % 64), 128 + (cp % 64)>>

\* the bytes when the text is handed to btoa unit by unit, without the UTF-8 step
Utf8Bytes_none(s) == [i \in 1..Len(s) |-> CodeOf(s[i]) % 256]

\* unescape(encodeURIComponent(s)): one unit per UTF-8 byte (s has no lone surrogate)
Utf8Bytes(s) ==
    Concat([i \in 1..Len(s) |->
        IF IsHighSurrogate(s[i])
        THEN Utf8OfCodePoint(65536 + (CodeOf(s[i]) - 55296) * 1024
                                   + (CodeOf(s[i + 1]) - 56320))
        ELSE IF IsLowSurrogate(s[i]) THEN <<>>
        ELSE Utf8OfCodePoint(CodeOf(s[i]))])

Base64Alphabet ==
    <<"A","B","C","D","E","F","G","H","I","J","K","L","M","N","O","P",
      "Q","R","S","T","U","V","W","X","Y","Z","a","b","c","d","e","f",
      "g","h","i","j","k","l","m","n","o","p","q","r","s","t","u","v",
      "w","x","y","z","0","1","2","3","4","5","6","7","8","9","+","/">>

Base64Value == [c \in {Base64Alphabet[k] : k \in 1..64} |->
                   (CHOOSE k \in 1..64 : Base64Alphabet[k] = c) - 1]

\* btoa on a sequence of bytes
Btoa(bytes) ==
    LET n == Len(bytes)
        byte(k) == IF k <= n THEN bytes[k] ELSE 0
        group(g) ==
            LET b0 == byte(3 * g + 1)  b1 == byte(3 * g + 2)  b2 == byte(3 * g + 3)
            IN << Base64Alphabet[(b0 \div 4) + 1],
                  Base64Alphabet[((b0 % 4) * 16) + (b1 \div 16) + 1],
                  IF 3 * g + 2 > n THEN "=" ELSE Base64Alphabet[((b1 % 16) * 4) + (b2 \div 64) + 1],
                  IF 3 * g + 3 > n THEN "=" ELSE Base64Alphabet[(b2 % 64) + 1] >>
    IN Concat([g \in 1..((n + 2) \div 3) |-> group(g - 1)])

\* the value of atob when it threw
BadBytes == <<-1>>

\* atob: the bytes, or BadBytes (InvalidCharacterError)
Atob(data) ==
    LET d0 == SelectSeq(data, LAMBDA c : c \notin SpaceChars)
        pad == IF Len(d0) % 4 = 0 /\ Len(d0) >= 2 /\ d0[Len(d0)] = "="
               THEN (IF d0[Len(d0) - 1] = "=" THEN 2 ELSE 1)
               ELSE 0
        d == SubSeq(d0, 1, Len(d0) - pad)
        n == Len(d)
        bits(k) == Base64Value[d[k]]
        \* the byte whose first bit is bit 8 * (j - 1) of the 6-bit stream
        byte(j) ==
            LET q == (8 * (j - 1)) \div 6  r == (8 * (j - 1)) % 6
            IN IF r = 0 THEN (bits(q + 1) * 4) + (bits(q + 2) \div 16)
               ELSE IF r = 2 THEN ((bits(q + 1) % 16) * 16) + (bits(q + 2) \div 4)
               ELSE ((bits(q + 1) % 4) * 64) + bits(q + 2)
    IN IF n % 4 = 1 \/ \E k \in 1..n : d[k] \notin DOMAIN Base64Value
       THEN BadBytes
       ELSE [j \in 1..((n * 6) \div 8) |-> byte(j)]

\* the length of the UTF-8 sequence a lead byte announces (0: not a lead byte)
Utf8Need(b) ==
    IF b < 128 THEN 1
    ELSE IF b \in 194..223 THEN 2
    ELSE IF b \in 224..239 THEN 3
    ELSE IF b \in 240..244 THEN 4
    ELSE 0

IsContinuation(b) == b \in 128..191

\* the code point of the well-formed UTF-8 sequence of n bytes at i, or -1
Utf8CodePointAt(bytes, i, n) ==
    LET b(k) == bytes[i + k]
        ok == /\ i + n - 1 <= Len(bytes)
              /\ \A k \in 1..(n - 1) : IsContinuation(b(k))
        cp == IF n = 1 THEN b(0)
              ELSE IF n = 2 THEN (b(0) - 192) * 64 + (b(1) - 128)
              ELSE IF n = 3 THEN (b(0) - 224) * 4096 + (b(1) - 128) * 64 + (b(2) - 128)
              ELSE (b(0) - 240) * 262144 + (b(1) - 128) * 4096
                       + (b(2) - 128) * 64 + (b(3) - 128)
    IN IF ~ok THEN -1
       ELSE IF n = 3 /\ (cp < 2048 \/ cp \in 55296..57343) THEN -1
       ELSE IF n = 4 /\ (cp < 65536 \/ cp > 1114111) THEN -1
       ELSE cp

\* the lead bytes of a byte sequence read left to right, each sequence as long as
\* its lead byte announces; <<>> when the reading meets a malformed sequence
RECURSIVE Utf8Leads(_, _)
Utf8Leads(bytes, i) ==
    IF i > Len(bytes) THEN <<>>
    ELSE LET n == Utf8Need(bytes[i])
         IN IF n = 0 \/ Utf8CodePointAt(bytes, i, n) < 0 THEN <<0>>
            ELSE <<i>> \o Utf8Leads(bytes, i + n)

\* decodeURIComponent(escape(bin)): the text of UTF-8 bytes, or Threw (URIError)
Utf8Decode(bytes) ==
    LET leads == Utf8Leads(bytes, 1)
        unit(i) ==
            LET cp == Utf8CodePointAt(bytes, i, Utf8Need(bytes[i]))
            IN IF cp < 65536 THEN <<CharOf(cp)>>
               ELSE <<CharOf(55296 + ((cp - 65536) \div 1024)),
                      CharOf(56320 + ((cp - 65536) % 1024))>>
    IN IF \E k \in 1..Len(leads) : leads[k] = 0 THEN Threw
       ELSE Concat([k \in 1..Len(leads) |-> unit(leads[k])])

(***************************************************************************)
(* The callback of the fenced-block replace in convertMarkdownToHTML of     *)
(* response-template.js, on the text c between two fences.                  *)
(***************************************************************************)
\* c.indexOf('\n'), counted from 1 (0: none)
firstLineBreak(c) == IndexOfFrom(c, <<"\n">>, 1)

\* language: the first line, when a line break lies behind at least one unit
FenceLanguage(c) ==
    IF firstLineBreak(c) > 1 THEN Trim(SubSeq(c, 1, firstLineBreak(c) - 1)) ELSE <<>>

\* .replace(/^\n+/, '').replace(/\n+$/, '')
StripNewlines(s) ==
    LET K == {i \in 1..Len(s) : s[i] # "\n"}
    IN IF K = {} THEN <<>> ELSE SubSeq(s, Min(K), Max(K))

\* codeContent, which is also originalCode
CodeContent(c) ==
    StripNewlines(IF firstLineBreak(c) > 1
                  THEN SubSeq(c, firstLineBreak(c) + 1, Len(c))
                  ELSE c)

\* one pass of .replace(/x/g, entity)
ReplaceChar(s, x, entity) == MapConcat(s, LAMBDA c : IF c = x THEN entity ELSE <<c>>)

\* the five replacements that escape the display copy, in the order of the code
EscapeForDisplay(s) ==
    LET s1 == ReplaceChar(s, "&", <<"&","a","m","p",";">>)
        s2 == ReplaceChar(s1, "<", <<"&","l","t",";">>)
        s3 == ReplaceChar(s2, ">", <<"&","g","t",";">>)
        s4 == ReplaceChar(s3, "\"", <<"&","q","u","o","t",";">>)
    IN ReplaceChar(s4, "'", <<"&","#","0","3","9",";">>)

\* btoa(unescape(encodeURIComponent(originalCode))), or Threw (URIError)
EncodeOriginalCode(originalCode) ==
    IF HasLoneSurrogate(originalCode) THEN Threw ELSE Btoa(Utf8Bytes(originalCode))

\* decodeURIComponent(escape(atob(encodedCode))), or Threw
DecodeOriginalCode(encodedCode) ==
    IF Atob(encodedCode) = BadBytes THEN Threw ELSE Utf8Decode(Atob(encodedCode))

\* 'code-block-' + the digits Math.random() gave
CodeBlockId(suffix) == <<"c","o","d","e","-","b","l","o","c","k","-">> \o suffix

(***************************************************************************)
(* The syntax highlighting of JavaScript code in convertMarkdownToHTML of   *)
(* response-template.js: six global replacements on the escaped code.       *)
(***************************************************************************)
\* the alternatives of the keyword expression
JsKeywords ==
    {<<"l","e","t">>,
     <<"c","o","n","s","t">>,
     <<"v","a","r">>,
     <<"f","u","n","c","t","i","o","n">>,
     <<"r","e","t","u","r","n">>,
     <<"i","f">>,
     <<"e","l","s","e">>,
     <<"f","o","r">>,
     <<"w","h","i","l","e">>,
     <<"s","w","i","t","c","h">>,
     <<"c","a","s","e">>,
     <<"b","r","e","a","k">>,
     <<"c","o","n","t","i","n","u","e">>,
     <<"n","e","w">>,
     <<"t","h","i","s">>,
     <<"c","l","a","s","s">>,
     <<"i","m","p","o","r","t">>,
     <<"e","x","p","o","r","t">>,
     <<"f","r","o","m">>,
     <<"t","r","y">>,
     <<"c","a","t","c","h">>,
     <<"t","h","r","o","w">>,
     <<"a","s","y","n","c">>,
     <<"a","w","a","i","t">>,
     <<"t","y","p","e","o","f">>,
     <<"i","n","s","t","a","n","c","e","o","f">>}

SpanClose ==
    <<"<","/","s","p","a","n",">">>

\* <span class="js-...">
SpanOpen(class) ==
    <<"<","s","p","a","n"," ","c","l","a","s","s","=","\"","j","s","-">>
    \o class \o <<"\"", ">">>

Span(class, text) == SpanOpen(class) \o text \o SpanClose

\* the class names of the spans
JsClass ==
    [ keyword |-> <<"k","e","y","w","o","r","d">>,
      function |-> <<"f","u","n","c","t","i","o","n">>,
      comment |-> <<"c","o","m","m","e","n","t">>,
      string |-> <<"s","t","r","i","n","g">>,
      number |-> <<"n","u","m","b","e","r">> ]

\* the pieces of the template literal of the fence callback, between its placeholders:
\* language || 'code', codeBlockId, codeBlockId, language, encodedOriginalCode, formattedCode
FenceTemplate ==
    << <<"\n"," "," "," "," "," "," "," "," "," "," "," "," ","<","d","i","v"," ","c","l","a","s","s",
           "=","\"","c","o","d","e","-","b","l","o","c","k","-","c","o","n","t","a","i","n","e","r","\"",
           ">","\n"," "," "," "," "," "," "," "," "," "," "," "," "," "," "," "," ","<","d","i","v"," ",
           "c","l","a","s","s","=","\"","c","o","d","e","-","b","l","o","c","k","-","h","e","a","d","e",
           "r","\"",">","\n"," "," "," "," "," "," "," "," "," "," "," "," "," "," "," "," "," "," "," ",
           " ","<","s","p","a","n"," ","c","l","a","s","s","=","\"","c","o","d","e","-","l","a","n","g",
           "u","a","g","e","\"",">">>,
       <<"<","/","s","p","a","n",">","\n"," "," "," "," "," "," "," "," "," "," "," "," "," "," "," ",
           " "," "," "," "," ","<","b","u","t","t","o","n"," ","c","l","a","s","s","=","\"","c","o","p",
           "y","-","c","o","d","e","-","b","u","t","t","o","n","\""," ","o","n","c","l","i","c","k","=",
           "\"","c","o","p","y","C","o","d","e","B","l","o","c","k","(","'">>,
       <<"'",")","\""," ","d","a","t","a","-","t","o","o","l","t","i","p","=","\"","C","o","p","y"," ",
           "c","o","d","e","\"",">","\n"," "," "," "," "," "," "," "," "," "," "," "," "," "," "," "," ",
           " "," "," "," "," "," "," "," ","<","s","v","g"," ","x","m","l","n","s","=","\"","h","t","t",
           "p",":","/","/","w","w","w",".","w","3",".","o","r","g","/","2","0","0","0","/","s","v","g",
           "\""," ","w","i","d","t","h","=","\"","1","6","\""," ","h","e","i","g","h","t","=","\"","1",
           "6","\""," ","v","i","e","w","B","o","x","=","\"","0"," ","0"," ","2","4"," ","2","4","\"",
           " ","f","i","l","l","=","\"","n","o","n","e","\""," ","s","t","r","o","k","e","=","\"","c",
           "u","r","r","e","n","t","C","o","l","o","r","\""," ","s","t","r","o","k","e","-","w","i","d",
           "t","h","=","\"","2","\""," ","s","t","r","o","k","e","-","l","i","n","e","c","a","p","=",
           "\"","r","o","u","n","d","\""," ","s","t","r","o","k","e","-","l","i","n","e","j","o","i","n",
           "=","\"","r","o","u","n","d","\"",">","\n"," "," "," "," "," "," "," "," "," "," "," "," ",
           " "," "," "," "," "," "," "," "," "," "," "," "," "," "," "," ","<","r","e","c","t"," ","x",
           "=","\"","9","\""," ","y","=","\"","9","\""," ","w","i","d","t","h","=","\"","1","3","\""," ",
           "h","e","i","g","h","t","=","\"","1","3","\""," ","r","x","=","\"","2","\""," ","r","y","=",
           "\"","2","\"",">","<","/","r","e","c","t",">","\n"," "," "," "," "," "," "," "," "," "," ",
           " "," "," "," "," "," "," "," "," "," "," "," "," "," "," "," "," "," ","<","p","a","t","h",
           " ","d","=","\"","M","5"," ","1","5","H","4","a","2"," ","2"," ","0"," ","0"," ","1","-","2",
           "-","2","V","4","a","2"," ","2"," ","0"," ","0"," ","1"," ","2","-","2","h","9","a","2"," ",
           "2"," ","0"," ","0"," ","1"," ","2"," ","2","v","1","\"",">","<","/","p","a","t","h",">","\n",
           " "," "," "," "," "," "," "," "," "," "," "," "," "," "," "," "," "," "," "," "," "," "," ",
           " ","<","/","s","v","g",">","\n"," "," "," "," "," "," "," "," "," "," "," "," "," "," "," ",
           " "," "," "," "," "," "," "," "," ","C","o","p","y","\n"," "," "," "," "," "," "," "," "," ",
           " "," "," "," "," "," "," "," "," "," "," ","<","/","b","u","t","t","o","n",">","\n"," "," ",
           " "," "," "," "," "," "," "," "," "," "," "," "," "," ","<","/","d","i","v",">","\n"," "," ",
           " "," "," "," "," "," "," "," "," "," "," "," "," "," ","<","p","r","e",">","<","c","o","d",
           "e"," ","i","d","=","\"">>,
       <<"\""," ","c","l","a","s","s","=","\"","l","a","n","g","u","a","g","e","-">>,
       <<"\""," ","d","a","t","a","-","o","r","i","g","i","n","a","l","-","c","o","d","e","=","\"">>,
       <<"\"",">">>,
       <<"<","/","c","o","d","e",">","<","/","p","r","e",">","\n"," "," "," "," "," "," "," "," "," ",
           " "," "," ","<","/","d","i","v",">","\n"," "," "," "," "," "," "," "," ">> >>

DefaultLanguageLabel ==
    <<"c","o","d","e">>

InlineCodeTemplate ==
    << <<"<","c","o","d","e"," ","c","l","a","s","s","=","\"","i","n","l","i","n","e","-","c","o","d",
           "e","\"",">">>,
       <<"<","/","c","o","d","e",">">> >>

LinkTemplate ==
    << <<"<","a"," ","h","r","e","f","=","\"">>,
       <<"\""," ","t","a","r","g","e","t","=","\"","_","b","l","a","n","k","\""," ","r","e","l","=",
           "\"","n","o","o","p","e","n","e","r"," ","n","o","r","e","f","e","r","r","e","r","\"",">">>,
       <<"<","/","a",">">> >>

ParagraphBreak ==
    <<"<","/","p",">","<","p",">">>

LineBreak ==
    <<"<","b","r",">">>

EmptyParagraph ==
    <<"<","p",">","<","/","p",">">>

FenceMark ==
    <<"96","96","96">>

\* [a-zA-Z_$] and [a-zA-Z0-9_$]
IdentStart == Letters \cup {"_", "$"}
IdentChars == WordChars \cup {"$"}

\* /\b(let|const|...|instanceof)\b/g: a whole word that is one of the alternatives
KeywordMatch(s, i) ==
    IF /\ s[i] \in LowerLetters
       /\ WordBoundary(s, i)
       /\ SubSeq(s, i, RunEnd(s, i, WordChars) - 1) \in JsKeywords
    THEN RunEnd(s, i, WordChars)
    ELSE 0

\* /\b([a-zA-Z_$][a-zA-Z0-9_$]*)\s*(?=\()/g: an identifier and the white space
\* behind it, when a parenthesis follows
FunctionMatch(s, i) ==
    IF /\ s[i] \in IdentStart
       /\ WordBoundary(s, i)
       /\ LET e == RunEnd(s, RunEnd(s, i, IdentChars), SpaceChars)
          IN e <= Len(s) /\ s[e] = "("
    THEN RunEnd(s, RunEnd(s, i, IdentChars), SpaceChars)
    ELSE 0

\* /(\/\/.*$)/gm: two slashes and the rest of the line
LineCommentMatch(s, i) ==
    IF StartsWithAt(s, i, <<"/", "/">>) THEN LineEnd(s, i + 2) ELSE 0

\* /(\/\*[\s\S]*?\*\/)/g: up to the first star-slash behind the opening
BlockCommentMatch(s, i) ==
    IF StartsWithAt(s, i, <<"/", "*">>) /\ IndexOfFrom(s, <<"*", "/">>, i + 2) > 0
    THEN IndexOfFrom(s, <<"*", "/">>, i + 2) + 2
    ELSE 0

Quotes == {"'", "\"", Backtick}

\* the number of backslashes right before position p, none before position lo
BackslashesBefore(s, lo, p) ==
    p - 1 - Max({j \in (lo - 1)..(p - 1) : j = lo - 1 \/ s[j] # "\\"})

\* /(['"`])((?:\\.|(?!\1)[^\\])*?)\1/g: from a quote to the next quote of its
\* kind that no backslash escapes; a backslash escapes any unit but a line end
StringMatch(s, i) ==
    IF s[i] \notin Quotes THEN 0
    ELSE LET C == {p \in (i + 1)..Len(s) :
                      s[p] = s[i] /\ BackslashesBefore(s, i + 1, p) % 2 = 0}
         IN IF C = {} THEN 0
            ELSE IF \E p \in (i + 1)..(Min(C) - 1) :
                        s[p] \in LineTerminators /\ BackslashesBefore(s, i + 1, p) % 2 = 1
            THEN 0
            ELSE Min(C) + 1

\* /\b(\d+(?:\.\d+)?)\b/g: digits, with a fraction when the number can end behind it
NumberMatch(s, i) ==
    IF ~(s[i] \in Digits /\ WordBoundary(s, i)) THEN 0
    ELSE LET d1 == RunEnd(s, i, Digits)
             fraction == d1 + 1 <= Len(s) /\ s[d1] = "." /\ s[d1 + 1] \in Digits
             d2 == IF fraction THEN RunEnd(s, d1 + 1, Digits) ELSE d1
         IN IF fraction /\ WordBoundary(s, d2) THEN d2
            ELSE IF WordBoundary(s, d1) THEN d1
            ELSE 0

\* the JavaScript branch: the six replacements in the order of the code
HighlightJavaScript(formattedCode) ==
    LET s1 == ReplaceAll(formattedCode, KeywordMatch,
                         LAMBDA s, i, e : Span(JsClass.keyword, SubSeq(s, i, e - 1)))
        s2 == ReplaceAll(s1, FunctionMatch,
                         LAMBDA s, i, e :
                             Span(JsClass.function, SubSeq(s, i, RunEnd(s, i, IdentChars) - 1)))
        s3 == ReplaceAll(s2, LineCommentMatch,
                         LAMBDA s, i, e : Span(JsClass.comment, SubSeq(s, i, e - 1)))
        s4 == ReplaceAll(s3, BlockCommentMatch,
                         LAMBDA s, i, e : Span(JsClass.comment, SubSeq(s, i, e - 1)))
        s5 == ReplaceAll(s4, StringMatch,
                         LAMBDA s, i, e : Span(JsClass.string, SubSeq(s, i, e - 1)))
    IN ReplaceAll(s5, NumberMatch, LAMBDA s, i, e : Span(JsClass.number, SubSeq(s, i, e - 1)))

\* the language tags that select the JavaScript branch
JavaScriptTags == { <<"j","a","v","a","s","c","r","i","p","t">>, <<"j","s">> }

\* formattedCode: the escaped code, highlighted when the language tag says JavaScript
FormattedCode(language, codeContent) ==
    IF ToLowerCase(language) \in JavaScriptTags
    THEN HighlightJavaScript(EscapeForDisplay(codeContent))
    ELSE EscapeForDisplay(codeContent)

(***************************************************************************)
(* convertMarkdownToHTML of response-template.js                            *)
(***************************************************************************)
\* /\n\s*\n\s*\n/g: from a line break to the last line break of a run of white
\* space that holds three or more line breaks
BlankLinesMatch(s, i) ==
    IF s[i] # "\n" THEN 0
    ELSE LET N == {j \in i..(RunEnd(s, i, SpaceChars) - 1) : s[j] = "\n"}
         IN IF Cardinality(N) >= 3 THEN Max(N) + 1 ELSE 0

\* markdown.trim().replace(/\n\s*\n\s*\n/g, '\n\n')
NormalizeMarkdown(markdown) ==
    ReplaceAll(Trim(markdown), BlankLinesMatch, LAMBDA s, i, e : <<"\n", "\n">>)

\* /```([\s\S]*?)```/g: from a fence to the next fence
FenceMatch(s, i) ==
    IF StartsWithAt(s, i, FenceMark) /\ IndexOfFrom(s, FenceMark, i + 3) > 0
    THEN IndexOfFrom(s, FenceMark, i + 3) + 3
    ELSE 0

\* the starts of the fenced blocks of a text, in order
FenceStarts(s) ==
    MatchStarts([i \in {j \in 1..Len(s) : FenceMatch(s, j) > j} |-> FenceMatch(s, i)], 1)

\* the texts between the fences of the fenced blocks (the argument 'code')
FenceCodes(s) ==
    [k \in 1..Len(FenceStarts(s)) |->
        SubSeq(s, FenceStarts(s)[k] + 3, FenceMatch(s, FenceStarts(s)[k]) - 4)]

\* what the callback returns for the text c between two fences
FenceCallback(c, suffix) ==
    FenceTemplate[1]
    \o (IF FenceLanguage(c) = <<>> THEN DefaultLanguageLabel ELSE FenceLanguage(c))
    \o FenceTemplate[2] \o CodeBlockId(suffix)
    \o FenceTemplate[3] \o CodeBlockId(suffix)
    \o FenceTemplate[4] \o FenceLanguage(c)
    \o FenceTemplate[5] \o EncodeOriginalCode(CodeContent(c))
    \o FenceTemplate[6] \o FormattedCode(FenceLanguage(c), CodeContent(c))
    \o FenceTemplate[7]

\* markdown.replace(/```([\s\S]*?)```/g, callback); ids[k] is what Math.random
\* gives in the k-th call
ReplaceFences(s, ids) ==
    LET ms == FenceStarts(s)
        n == Len(ms)
        endOf(k) == FenceMatch(s, ms[k])
        piece(k) == SubSeq(s, IF k = 1 THEN 1 ELSE endOf(k - 1), ms[k] - 1)
                        \o FenceCallback(FenceCodes(s)[k], ids[k])
    IN IF n = 0 THEN s
       ELSE Concat([k \in 1..n |-> piece(k)]) \o SubSeq(s, endOf(n), Len(s))

\* /`([^`]+)`/g
InlineCodeMatch(s, i) ==
    IF s[i] = Backtick /\ IndexOfFrom(s, <<Backtick>>, i + 1) > i + 1
    THEN IndexOfFrom(s, <<Backtick>>, i + 1) + 1
    ELSE 0

\* ^ with the m flag
LineStart(s, i) == i = 1 \/ s[i - 1] \in LineTerminators

\* /^# (.*$)/gm, /^## (.*$)/gm, /^### (.*$)/gm: marks is the text up to the blank
HeaderMatch(s, i, marks) ==
    IF s[i] = "#" /\ LineStart(s, i) /\ StartsWithAt(s, i, marks)
    THEN LineEnd(s, i + Len(marks))
    ELSE 0

\* <hN>...</hN>
HeaderElement(level, text) ==
    <<"<", "h", level, ">">> \o text \o <<"<", "/", "h", level, ">">>

\* one of the three header replacements
ReplaceHeaders(s, marks, level) ==
    ReplaceAll(s, LAMBDA t, i : HeaderMatch(t, i, marks),
               LAMBDA t, i, e : HeaderElement(level, SubSeq(t, i + Len(marks), e - 1)))

\* /\*\*(.*?)\*\*/g
BoldMatch(s, i) ==
    IF StartsWithAt(s, i, <<"*", "*">>)
       /\ IndexOfFrom(s, <<"*", "*">>, i + 2) > 0
       /\ IndexOfFrom(s, <<"*", "*">>, i + 2) < LineEnd(s, i + 2)
    THEN IndexOfFrom(s, <<"*", "*">>, i + 2) + 2
    ELSE 0

\* /\*(.*?)\*/g
ItalicMatch(s, i) ==
    IF s[i] = "*"
       /\ IndexOfFrom(s, <<"*">>, i + 1) > 0
       /\ IndexOfFrom(s, <<"*">>, i + 1) < LineEnd(s, i + 1)
    THEN IndexOfFrom(s, <<"*">>, i + 1) + 1
    ELSE 0

\* the position of the ] that ends the link text which starts at i with [
LinkTextEnd(s, i) == IndexOfFrom(s, <<"]">>, i + 1)

\* /\[([^\]]+)\]\(([^)]+)\)/g
LinkMatch(s, i) ==
    IF s[i] = "["
       /\ LinkTextEnd(s, i) > i + 1
       /\ StartsWithAt(s, LinkTextEnd(s, i) + 1, <<"(">>)
       /\ IndexOfFrom(s, <<")">>, LinkTextEnd(s, i) + 2) > LinkTextEnd(s, i) + 2
    THEN IndexOfFrom(s, <<")">>, LinkTextEnd(s, i) + 2) + 1
    ELSE 0

\* <a href="$2" target="_blank" rel="noopener noreferrer">$1</a>
LinkElement(s, i, e) ==
    LinkTemplate[1] \o SubSeq(s, LinkTextEnd(s, i) + 2, e - 2) \o LinkTemplate[2]
    \o SubSeq(s, i + 1, LinkTextEnd(s, i) - 1) \o LinkTemplate[3]

\* /\n\n+/g
ParagraphMatch(s, i) ==
    IF StartsWithAt(s, i, <<"\n", "\n">>) THEN RunEnd(s, i, {"\n"}) ELSE 0

\* .replace(/^(.*)$/, '<p>$1</p>'): without the m flag the expression matches
\* only a text that has no line terminator left
WrapInParagraph(s) ==
    IF \E i \in 1..Len(s) : s[i] \in LineTerminators
    THEN s
    ELSE <<"<", "p", ">">> \o s \o <<"<", "/", "p", ">">>

\* /<p><\/p>/g
EmptyParagraphMatch(s, i) ==
    IF StartsWithAt(s, i, EmptyParagraph) THEN i + Len(EmptyParagraph) ELSE 0

HeaderLevels == {"1", "2", "3", "4", "5", "6"}

\* does </hN></p> stand at position j
HeaderCloseAt(s, j) ==
    /\ StartsWithAt(s, j, <<"<", "/", "h">>)
    /\ j + 3 <= Len(s) /\ s[j + 3] \in HeaderLevels
    /\ StartsWithAt(s, j + 4, <<">", "<", "/", "p", ">">>)

\* /<p>(<h[1-6]>.*?<\/h[1-6]>)<\/p>/g
ParagraphAroundHeaderMatch(s, i) ==
    IF StartsWithAt(s, i, <<"<", "p", ">", "<", "h">>)
       /\ i + 6 <= Len(s) /\ s[i + 5] \in HeaderLevels /\ s[i + 6] = ">"
       /\ \E j \in (i + 7)..LineEnd(s, i + 7) : HeaderCloseAt(s, j)
    THEN Min({j \in (i + 7)..LineEnd(s, i + 7) : HeaderCloseAt(s, j)}) + 9
    ELSE 0

\* /<p>(<div.*?<\/div>)<\/p>/g
ParagraphAroundDivMatch(s, i) ==
    LET close == <<"<", "/", "d", "i", "v", ">", "<", "/", "p", ">">>
    IN IF StartsWithAt(s, i, <<"<", "p", ">", "<", "d", "i", "v">>)
          /\ \E j \in (i + 7)..LineEnd(s, i + 7) : StartsWithAt(s, j, close)
       THEN Min({j \in (i + 7)..LineEnd(s, i + 7) : StartsWithAt(s, j, close)}) + 10
       ELSE 0

\* the replacements behind the fenced blocks, in the order of the code
MarkdownElements(html) ==
    LET h0 == ReplaceAll(html, InlineCodeMatch,
                  LAMBDA s, i, e : InlineCodeTemplate[1] \o SubSeq(s, i + 1, e - 2) \o InlineCodeTemplate[2])
        h1 == ReplaceHeaders(h0, <<"#", " ">>, "1")
        h2 == ReplaceHeaders(h1, <<"#", "#", " ">>, "2")
        h3 == ReplaceHeaders(h2, <<"#", "#", "#", " ">>, "3")
        h4 == ReplaceAll(h3, BoldMatch,
                  LAMBDA s, i, e : <<"<","s","t","r","o","n","g",">">> \o SubSeq(s, i + 2, e - 3)
                                   \o <<"<","/","s","t","r","o","n","g",">">>)
        h5 == ReplaceAll(h4, ItalicMatch,
                  LAMBDA s, i, e : <<"<","e","m",">">> \o SubSeq(s, i + 1, e - 2)
                                   \o <<"<","/","e","m",">">>)
        h6 == ReplaceAll(h5, LinkMatch, LinkElement)
        h7 == ReplaceAll(h6, ParagraphMatch, LAMBDA s, i, e : ParagraphBreak)
        h8 == MapConcat(h7, LAMBDA c : IF c = "\n" THEN LineBreak ELSE <<c>>)
        h9 == WrapInParagraph(h8)
        h10 == ReplaceAll(h9, EmptyParagraphMatch, LAMBDA s, i, e : <<>>)
        h11 == ReplaceAll(h10, ParagraphAroundHeaderMatch,
                   LAMBDA s, i, e : SubSeq(s, i + 3, e - 5))
        h12 == ReplaceAll(h11, ParagraphAroundDivMatch,
                   LAMBDA s, i, e : SubSeq(s, i + 3, e - 5))
    IN Trim(h12)

\* convertMarkdownToHTML(markdown): the HTML, or Threw when encodeURIComponent
\* throws in the callback of a fenced block
convertMarkdownToHTML(markdown, ids) ==
    LET normal == NormalizeMarkdown(markdown)
    IN IF \E k \in 1..Len(FenceCodes(normal)) :
              EncodeOriginalCode(CodeContent(FenceCodes(normal)[k])) = Threw
       THEN Threw
       ELSE MarkdownElements(ReplaceFences(normal, ids))

(***************************************************************************)
(* md.renderer.rules.fence of response-formatter.js on a fence token, and   *)
(* what the browser makes of its output.                                    *)
(***************************************************************************)
\* escapeHtml: one pass over the text with the entity map
escapeHtml(text) ==
    MapConcat(text, LAMBDA c :
        IF c = "&" THEN <<"&","a","m","p",";">>
        ELSE IF c = "<" THEN <<"&","l","t",";">>
        ELSE IF c = ">" THEN <<"&","g","t",";">>
        ELSE IF c = "\"" THEN <<"&","q","u","o","t",";">>
        ELSE IF c = "'" THEN <<"&","#","0","3","9",";">>
        ELSE <<c>>)

\* the five entities the escaping functions produce
Entities ==
    << <<<<"&","a","m","p",";">>, "&">>, <<<<"&","l","t",";">>, "<">>,
       <<<<"&","g","t",";">>, ">">>, <<<<"&","q","u","o","t",";">>, "\"">>,
       <<<<"&","#","0","3","9",";">>, "'">> >>

EntityAt(s, i) ==
    IF \E k \in 1..Len(Entities) : StartsWithAt(s, i, Entities[k][1])
    THEN CHOOSE k \in 1..Len(Entities) : StartsWithAt(s, i, Entities[k][1])
    ELSE 0

\* the text a browser shows for escaped text without tags (innerText of the element)
TextContent(s) ==
    ReplaceAll(s, LAMBDA t, i : IF EntityAt(t, i) > 0
                                THEN i + Len(Entities[EntityAt(t, i)][1]) ELSE 0,
                  LAMBDA t, i, e : <<Entities[EntityAt(t, i)][2]>>)

\* const codeContent = token.content.trim()
FenceTokenContent(content) == Trim(content)

\* innerText of the <code> element the fence rule emits
FenceInnerText(content) == TextContent(escapeHtml(FenceTokenContent(content)))

(***************************************************************************)
(* The page: code blocks, their copy controls, the clipboard.               *)
(***************************************************************************)
\* bounds of the model
MaxBlocks == 2
MaxClicks == 2
MaxAttachRuns == 2
MaxCodeLen == 2

\* the digits Math.random().toString(36).substring(2, 9) may give: any of them
\* at every call, so two blocks of one page may get the same
IdSuffixes == { <<"k","3","f","9","x","2","q">>, <<"0","z","m","7","c","1","b">> }

\* the text of the k-th code block that comes into the page: no two alike
PageCode(k) ==
    IF k = 1 THEN <<"a","<","b">>
    ELSE IF k = 2 THEN <<"j","s","\n"," ","x","&","y","\n">>
    ELSE <<"p","y","\n","'","233","'">> \o [i \in 1..(k - 3) |-> "z"]

\* what execCommand('copy') may do
CopyOutcomes == {"true", "false", "throws"}

NoText == [by |-> 0, text |-> <<>>]
NoButton == [content |-> "none", styled |-> FALSE]
IdleButton == [content |-> "original", styled |-> FALSE]
CopiedButton == [content |-> "copied", styled |-> TRUE]

\* the activations whose clipboard write is pending
Pending == {k \in 1..Len(copies) : copies[k].primary = "pending"}

\* the blocks that have been taken out of the document
RemovedBlocks == removed

\* the blocks of the document
Attached == {e \in 1..Len(page) : e \notin RemovedBlocks}

\* document.getElementById(id): the first element of the document with the id
getElementById(id) ==
    IF \E e \in Attached : page[e].id = id
    THEN Min({e \in Attached : page[e].id = id})
    ELSE 0

\* document.querySelector(`button[onclick="copyCodeBlock('${id}')"]`):
\* the first button of the document wired to the id
querySelectorButton(id) ==
    IF \E e \in Attached : page[e].id = id /\ page[e].controls > 0
    THEN Min({e \in Attached : page[e].id = id /\ page[e].controls > 0})
    ELSE 0

\* the acknowledgment: the control of block t shows "Copied!", and a timer is set
\* that puts back what the control showed when the acknowledgment was made
Acknowledge(t) ==
    /\ button' = [button EXCEPT ![t] = CopiedButton]
    /\ timers' = Append(timers, [target |-> t, originalText |-> button[t].content])

\* the timer callback of an acknowledgment, looking the control up in the
\* document again instead of using the element it captured
Restore_lookup ==
    /\ timers # <<>>
    /\ timers' = Tail(timers)
    /\ IF Head(timers).target \in RemovedBlocks
       THEN /\ uncaught' = Append(uncaught, "TypeError")
            /\ UNCHANGED button
       ELSE /\ button' = [button EXCEPT ![Head(timers).target] =
                             [content |-> Head(timers).originalText, styled |-> FALSE]]
            /\ UNCHANGED uncaught

\* the timer callback of an acknowledgment: it writes to the button element it
\* captured, in the document or not
Restore ==
    /\ timers # <<>>
    /\ button' = [button EXCEPT ![Head(timers).target] =
                      [content |-> Head(timers).originalText, styled |-> FALSE]]
    /\ timers' = Tail(timers)
    /\ UNCHANGED uncaught

\* ---- response-template.js ----

\* the block the fenced-block callback emits for the text c between two fences
TemplateBlock(c, suffix) ==
    [kind |-> "rendered", id |-> CodeBlockId(suffix), original |-> CodeContent(c),
     encoded |-> EncodeOriginalCode(CodeContent(c)), innerText |-> <<>>,
     container |-> TRUE, controls |-> 1, runs |-> 0]

\* the host page inserts the rendered block of a fence into the document
RenderFencedBlock(c, suffix) ==
    /\ impl = "template"
    /\ Len(page) < MaxBlocks
    /\ EncodeOriginalCode(CodeContent(c)) # Threw
    /\ page' = Append(page, TemplateBlock(c, suffix))
    /\ button' = Append(button, IdleButton)
    /\ UNCHANGED <<impl, clipboardApi, copies, timers, clipboard, log, code, varsRender, varsProcess, varsDocument, textareas>>

\* copyCodeBlock(codeBlockId) whose catch goes on to the fallback copy
copyCodeBlock_fallback(b) ==
    /\ impl = "template"
    /\ b \in Attached
    /\ page[b].controls > 0
    /\ Len(copies) < MaxClicks
    /\ LET e == getElementById(page[b].id)
           textToCopy == DecodeOriginalCode(page[e].encoded)
           copy(text, primary, fallback) ==
               [by |-> b, id |-> page[b].id, text |-> text,
                primary |-> primary, fallback |-> fallback]
       IN IF textToCopy = Threw
          THEN /\ log' = Append(log, "Failed to decode code")
               /\ copies' = Append(copies, copy(<<>>, "undecodable", "true"))
               /\ clipboard' = [by |-> b, text |-> <<>>]
               /\ Acknowledge(querySelectorButton(page[b].id))
          ELSE IF ~clipboardApi
          THEN /\ log' = Append(log, "Failed to decode code")
               /\ copies' = Append(copies, copy(textToCopy, "unavailable", "none"))
               /\ UNCHANGED <<button, timers, clipboard>>
          ELSE /\ copies' = Append(copies, copy(textToCopy, "pending", "none"))
               /\ UNCHANGED <<log, button, timers, clipboard>>
    /\ UNCHANGED <<impl, clipboardApi, page, code, varsRender, varsProcess, varsDocument, textareas>>

\* copyCodeBlock(codeBlockId), called by the onclick of the control of block b
copyCodeBlock(b) ==
    /\ impl = "template"
    /\ b \in Attached
    /\ page[b].controls > 0
    /\ Len(copies) < MaxClicks
    /\ LET e == getElementById(page[b].id)
           textToCopy == DecodeOriginalCode(page[e].encoded)
           copy(text, primary) == [by |-> b, id |-> page[b].id, text |-> text,
                                   primary |-> primary, fallback |-> "none"]
       IN IF textToCopy = Threw
          THEN /\ log' = Append(log, "Failed to decode code")
               /\ copies' = Append(copies, copy(<<>>, "undecodable"))
          ELSE IF ~clipboardApi
          THEN \* navigator.clipboard is undefined: the TypeError is caught by
               \* the catch around the decoding
               /\ log' = Append(log, "Failed to decode code")
               /\ copies' = Append(copies, copy(textToCopy, "unavailable"))
          ELSE /\ copies' = Append(copies, copy(textToCopy, "pending"))
               /\ UNCHANGED log
    /\ UNCHANGED <<impl, clipboardApi, page, button, timers, clipboard, code, varsRender, varsProcess, varsDocument, textareas>>

\* the .then of writeText: the write succeeded
copyCodeBlock_then(k) ==
    /\ impl = "template"
    /\ k \in Pending
    /\ copies' = [copies EXCEPT ![k].primary = "resolved"]
    /\ clipboard' = [by |-> copies[k].by, text |-> copies[k].text]
    /\ IF querySelectorButton(copies[k].id) > 0
       THEN Acknowledge(querySelectorButton(copies[k].id))
       ELSE UNCHANGED <<button, timers>>
    /\ UNCHANGED <<impl, clipboardApi, page, log, code, varsRender, varsProcess, varsDocument, textareas>>

\* document.body.appendChild(textArea): one more textarea in the body
appendChild(n) == n + 1

\* document.body.removeChild(textArea) left out
removeChild_none(n) == n

\* document.body.removeChild(textArea): one textarea fewer in the body
removeChild(n) == n - 1

\* fallbackCopyTextToClipboard(text, codeBlockId) of response-template.js for
\* activation k, with what document.execCommand('copy') did; log0 is the log so far
fallbackCopyTextToClipboard(k, outcome, log0) ==
    /\ IF outcome = "true"
       THEN /\ clipboard' = [by |-> copies[k].by, text |-> copies[k].text]
            /\ log' = log0
            /\ IF querySelectorButton(copies[k].id) > 0
               THEN Acknowledge(querySelectorButton(copies[k].id))
               ELSE UNCHANGED <<button, timers>>
       ELSE IF outcome = "false"
       THEN /\ log' = log0
            /\ UNCHANGED <<clipboard, button, timers>>
       ELSE /\ log' = Append(log0, "Fallback: Oops, unable to copy")
            /\ UNCHANGED <<clipboard, button, timers>>
    \* after the try and its catch: document.body.removeChild(textArea)
    /\ textareas' = removeChild(appendChild(textareas))

\* the .catch of writeText: the write was rejected
copyCodeBlock_catch(k, outcome) ==
    /\ impl = "template"
    /\ k \in Pending
    /\ copies' = [copies EXCEPT ![k].primary = "rejected", ![k].fallback = outcome]
    /\ fallbackCopyTextToClipboard(k, outcome, Append(log, "Failed to copy code"))
    /\ UNCHANGED <<impl, clipboardApi, page, code, varsRender, varsProcess, varsDocument>>

\* the setTimeout callback of the acknowledgment (2000 ms)
copyCodeBlock_timeout ==
    /\ impl = "template"
    /\ Restore
    /\ UNCHANGED <<impl, clipboardApi, page, copies, clipboard, log, code, varsRender, varsProcess,
                   readyState, removed, prism, textareas>>

\* ---- response-formatter.js with the copy button script (part_000) ----

\* the block md.renderer.rules.fence emits for a fence token
FenceTokenBlock(content, suffix) ==
    [kind |-> "rendered", id |-> CodeBlockId(suffix), original |-> content,
     encoded |-> <<>>, innerText |-> FenceInnerText(content),
     container |-> TRUE, controls |-> 1, runs |-> 0]

\* the host page inserts the rendered block of a fence token into the document
RenderFenceToken(content, suffix) ==
    /\ impl = "window"
    /\ Len(page) < MaxBlocks
    /\ page' = Append(page, FenceTokenBlock(content, suffix))
    /\ button' = Append(button, IdleButton)
    /\ UNCHANGED <<impl, clipboardApi, copies, timers, clipboard, log, code, varsRender, varsProcess, varsDocument, textareas>>

\* content with a bare <pre><code> element comes into the document
InsertBareBlock(text) ==
    /\ impl = "window"
    /\ Len(page) < MaxBlocks
    /\ page' = Append(page, [kind |-> "bare", id |-> <<>>, original |-> text,
                             encoded |-> <<>>, innerText |-> text,
                             container |-> FALSE, controls |-> 0, runs |-> 0])
    /\ button' = Append(button, NoButton)
    /\ UNCHANGED <<impl, clipboardApi, copies, timers, clipboard, log, code, varsRender, varsProcess, varsDocument, textareas>>

\* addCopyButtons_forEach without the closest('.code-block-container') test
addCopyButtons_forEach_unguarded(blk) ==
    [blk EXCEPT !.runs = IF @ < MaxAttachRuns THEN @ + 1 ELSE @,
                !.container = TRUE, !.controls = @ + 1]

\* the body of the forEach of addCopyButtons on one 'pre code' element; runs
\* counts the calls of addCopyButtons the element has been through
addCopyButtons_forEach(blk) ==
    LET seen == [blk EXCEPT !.runs = IF @ < MaxAttachRuns THEN @ + 1 ELSE @]
    IN IF ~blk.container
       THEN [seen EXCEPT !.container = TRUE, !.controls = @ + 1]
       ELSE seen

\* window.addCopyButtons
addCopyButtons ==
    /\ impl = "window"
    /\ page' = [b \in 1..Len(page) |->
                   IF b \in Attached THEN addCopyButtons_forEach(page[b]) ELSE page[b]]
    /\ button' = [b \in 1..Len(page) |->
                     IF page[b].controls = 0 /\ page'[b].controls > 0
                     THEN IdleButton ELSE button[b]]
    /\ UNCHANGED <<impl, clipboardApi, copies, timers, clipboard, log, code, varsRender, varsProcess, varsDocument, textareas>>

\* the listener of DOMContentLoaded: the event fires once
DOMContentLoaded ==
    /\ readyState = "loading"
    /\ readyState' = "interactive"
    /\ impl = "window"
    /\ page' = [b \in 1..Len(page) |->
                   IF b \in Attached THEN addCopyButtons_forEach(page[b]) ELSE page[b]]
    /\ button' = [b \in 1..Len(page) |->
                     IF page[b].controls = 0 /\ page'[b].controls > 0
                     THEN IdleButton ELSE button[b]]
    /\ UNCHANGED <<impl, clipboardApi, copies, timers, clipboard, log, code, varsRender, varsProcess,
                   removed, uncaught, prism, textareas>>

\* the host page takes block b, with its control, out of the document while a
\* clipboard write that b's control started is pending
RemoveBlock(b) ==
    /\ b \in Attached
    /\ \E k \in Pending : copies[k].by = b
    /\ removed' = removed \cup {b}
    /\ UNCHANGED <<varsPage, code, varsRender, varsProcess, readyState, uncaught, prism,
                   textareas>>

\* window.fallbackCopyTextToClipboard(text, button) for activation k, with what
\* document.execCommand('copy') did: its result is not looked at
window_fallbackCopyTextToClipboard(k, by, text, outcome) ==
    /\ IF outcome = "throws"
       THEN /\ log' = Append(log, "Fallback: Copy command failed")
            /\ UNCHANGED <<clipboard, button, timers>>
       ELSE /\ clipboard' = IF outcome = "true" THEN [by |-> by, text |-> text]
                            ELSE clipboard
            /\ Acknowledge(by)
            /\ UNCHANGED log
    \* after the try and its catch: document.body.removeChild(textArea)
    /\ textareas' = removeChild(appendChild(textareas))

\* window.copyCodeBlock(button), up to the await
window_copyCodeBlock(b, outcome) ==
    /\ impl = "window"
    /\ b \in Attached
    /\ page[b].controls > 0
    /\ page[b].container
    /\ Len(copies) < MaxClicks
    /\ LET copy(primary, fallback) ==
               [by |-> b, id |-> page[b].id, text |-> page[b].innerText,
                primary |-> primary, fallback |-> fallback]
       IN IF clipboardApi
          THEN /\ copies' = Append(copies, copy("pending", "none"))
               /\ UNCHANGED <<button, timers, clipboard, log, textareas>>
          ELSE \* navigator.clipboard is undefined: the TypeError is caught
               /\ copies' = Append(copies, copy("unavailable", outcome))
               /\ window_fallbackCopyTextToClipboard(
                      Len(copies) + 1, b, page[b].innerText, outcome)
    /\ UNCHANGED <<impl, clipboardApi, page, code, varsRender, varsProcess, varsDocument>>

\* window.copyCodeBlock after the await: the write succeeded; showCopySuccess
window_copyCodeBlock_resolved(k) ==
    /\ impl = "window"
    /\ k \in Pending
    /\ copies' = [copies EXCEPT ![k].primary = "resolved"]
    /\ clipboard' = [by |-> copies[k].by, text |-> copies[k].text]
    /\ Acknowledge(copies[k].by)
    /\ UNCHANGED <<impl, clipboardApi, page, log, code, varsRender, varsProcess, varsDocument, textareas>>

\* window.copyCodeBlock after the await: the write was rejected
window_copyCodeBlock_rejected(k, outcome) ==
    /\ impl = "window"
    /\ k \in Pending
    /\ copies' = [copies EXCEPT ![k].primary = "rejected", ![k].fallback = outcome]
    /\ window_fallbackCopyTextToClipboard(k, copies[k].by, copies[k].text, outcome)
    /\ UNCHANGED <<impl, clipboardApi, page, code, varsRender, varsProcess, varsDocument>>

\* the setTimeout callback of showCopySuccess (1200 ms)
showCopySuccess_timeout ==
    /\ impl = "window"
    /\ Restore
    /\ UNCHANGED <<impl, clipboardApi, page, copies, clipboard, log, code, varsRender, varsProcess,
                   readyState, removed, prism, textareas>>

(***************************************************************************)
(* The copy interaction on a page                                           *)
(***************************************************************************)
InitPage ==
    /\ impl \in {"template", "window"}
    /\ clipboardApi \in BOOLEAN
    /\ page = <<>>
    /\ button = <<>>
    /\ copies = <<>>
    /\ timers = <<>>
    /\ clipboard = NoText
    /\ log = <<>>
    /\ readyState = "complete"
    /\ removed = {}
    /\ uncaught = <<>>
    /\ prism = {}
    /\ textareas = 0

\* no document is being rendered
InitRenderIdle ==
    /\ parts = <<>>
    /\ formattedResponse = <<>>
    /\ htmlResponse = <<"none">>

\* processResponse has not been called
InitProcessIdle ==
    /\ request = [query |-> [type |-> "undefined"], aiResponse |-> [type |-> "undefined"],
                   markdownit |-> TRUE]
    /\ result = [status |-> "none"]

Init ==
    /\ InitPage
    /\ code = <<>>
    /\ InitRenderIdle
    /\ InitProcessIdle

\* the activations, continuations and timers of the copy controls
Interact ==
    \/ \E b \in 1..MaxBlocks : copyCodeBlock(b)
    \/ \E k \in 1..MaxClicks : copyCodeBlock_then(k)
    \/ \E k \in 1..MaxClicks, o \in CopyOutcomes : copyCodeBlock_catch(k, o)
    \/ copyCodeBlock_timeout
    \/ \E b \in 1..MaxBlocks, o \in CopyOutcomes : window_copyCodeBlock(b, o)
    \/ \E k \in 1..MaxClicks : window_copyCodeBlock_resolved(k)
    \/ \E k \in 1..MaxClicks, o \in CopyOutcomes : window_copyCodeBlock_rejected(k, o)
    \/ showCopySuccess_timeout

\* rendered answers come into the page, and their copy controls are used
Next ==
    \/ \E x \in IdSuffixes : RenderFencedBlock(PageCode(Len(page) + 1), x)
    \/ \E x \in IdSuffixes : RenderFenceToken(PageCode(Len(page) + 1), x)
    \/ Interact

Spec == Init /\ [][Next]_vars

(***************************************************************************)
(* Attaching copy controls: content comes into a page that runs the copy    *)
(* button script, and addCopyButtons runs any number of times.              *)
(***************************************************************************)
InitAttach ==
    /\ InitPage
    /\ impl = "window"
    /\ code = <<>>
    /\ InitRenderIdle
    /\ InitProcessIdle

NextAttach ==
    \/ \E x \in IdSuffixes : RenderFenceToken(PageCode(Len(page) + 1), x)
    \/ InsertBareBlock(PageCode(Len(page) + 1))
    \/ addCopyButtons

SpecAttach == InitAttach /\ [][NextAttach]_vars

(***************************************************************************)
(* Loading the page: the copy button script registers addCopyButtons for    *)
(* DOMContentLoaded and does nothing else with it; content comes into the   *)
(* document before and after the event, and the controls are used.  The     *)
(* browser fires the event.                                                 *)
(***************************************************************************)
InitLoad ==
    /\ impl = "window"
    /\ clipboardApi \in BOOLEAN
    /\ page = <<>>
    /\ button = <<>>
    /\ copies = <<>>
    /\ timers = <<>>
    /\ clipboard = NoText
    /\ log = <<>>
    /\ readyState = "loading"
    /\ removed = {}
    /\ uncaught = <<>>
    /\ prism = {}
    /\ textareas = 0
    /\ code = <<>>
    /\ InitRenderIdle
    /\ InitProcessIdle

NextLoad ==
    \/ \E x \in IdSuffixes : RenderFenceToken(PageCode(Len(page) + 1), x)
    \/ InsertBareBlock(PageCode(Len(page) + 1))
    \/ DOMContentLoaded
    \/ \E b \in 1..MaxBlocks, o \in CopyOutcomes : window_copyCodeBlock(b, o)
    \/ \E k \in 1..MaxClicks : window_copyCodeBlock_resolved(k)
    \/ \E k \in 1..MaxClicks, o \in CopyOutcomes : window_copyCodeBlock_rejected(k, o)
    \/ showCopySuccess_timeout

SpecLoad == InitLoad /\ [][NextLoad]_vars /\ WF_vars(DOMContentLoaded)

(***************************************************************************)
(* Blocks leave the document while their controls are in use.  Math.random   *)
(* gives the blocks of the page the two identifiers in turn, so the third    *)
(* block of a page has the identifier of the first.                         *)
(***************************************************************************)
DetachSuffix(k) ==
    IF k % 2 = 1 THEN <<"k","3","f","9","x","2","q">> ELSE <<"0","z","m","7","c","1","b">>

NextDetach ==
    \/ RenderFencedBlock(PageCode(Len(page) + 1), DetachSuffix(Len(page) + 1))
    \/ RenderFenceToken(PageCode(Len(page) + 1), DetachSuffix(Len(page) + 1))
    \/ Interact
    \/ \E b \in 1..MaxBlocks : RemoveBlock(b)

SpecDetach == Init /\ [][NextDetach]_vars

(***************************************************************************)
(* Round trip of the original text of one block: a page of                  *)
(* response-template.js gets one rendered block, whose control is used.     *)
(* The timer callbacks only change what the button shows; they are          *)
(* exercised in Spec and left out here.                                     *)
(***************************************************************************)
\* the units of the code texts: markup characters, quotes, a backtick, a line
\* break, units of two and three UTF-8 bytes, the two halves of a surrogate pair
CodeUnits == {"a", "<", "&", "\"", "'", Backtick, "\n", "233", "8364", "55357", "56832"}

CodeTexts == UNION {[1..n -> CodeUnits] : n \in 0..MaxCodeLen}

InitRoundTrip ==
    /\ InitPage
    /\ impl = "template"
    /\ code \in CodeTexts
    /\ InitRenderIdle
    /\ InitProcessIdle

NextRoundTrip ==
    \/ page = <<>> /\ \E x \in IdSuffixes : RenderFencedBlock(code, x)
    \/ \E b \in 1..MaxBlocks : copyCodeBlock(b)
    \/ \E k \in 1..MaxClicks : copyCodeBlock_then(k)
    \/ \E k \in 1..MaxClicks, o \in CopyOutcomes : copyCodeBlock_catch(k, o)

SpecRoundTrip == InitRoundTrip /\ [][NextRoundTrip]_vars

(***************************************************************************)
(* Rendering a document and using the copy controls of its blocks           *)
(* (response-template.js).                                                  *)
(***************************************************************************)
\* html before convertMarkdownToHTML has run
NoHtml == <<"none">>

\* dataset.originalCode of an element without the attribute, as atob reads it
Undefined == <<"u","n","d","e","f","i","n","e","d">>

\* what a document says before its fenced block
DocTextsBefore ==
    { <<>>,
      <<"#"," ","T","\n","\n">>,
      <<"s","e","e"," ","*","t","h","i","s","*",":","\n">> }

\* what a document says behind its fenced block
DocTextsAfter ==
    { <<>>,
      <<"\n","\n","#","#"," ","e","\n">> }

\* the language tags of the fenced blocks of the documents (none of them selects
\* the Python, HTML or CSS replacements of the fence callback)
DocLanguages ==
    { <<>>,
      <<"j","s">>,
      <<"t","x","t">> }

\* the code of the fenced blocks of the documents
DocBodies ==
    { <<"i","f"," ","(","x"," ","<"," ","1",")"," ","{"," ","r","e","t","u","r","n"," ","\"","<","b",">",
  "\"",";"," ","}">>,
      <<"a","\n","#"," ","b">>,
      <<"a","\n","\n","\n","\n","b">>,
      <<" "," ","a","\n"," "," ","b">>,
      <<"x"," ","="," ","f"," ","(","1",")">>,
      <<"l","e","t"," ","s"," ","="," ","'","i","t","'",";","\n","/","/"," ","c">> }

\* a part of a document: text, or a fenced block with its language tag and code
TextPart(t) == [fence |-> FALSE, lang |-> <<>>, text |-> t]
FencePart(l, c) == [fence |-> TRUE, lang |-> l, text |-> c]

\* addInlineCitation(text, sourceIndex, url)
addInlineCitation(text, sourceIndex, url) ==
    text \o <<" ", "[", "[">> \o sourceIndex \o <<"]", "(">> \o url \o <<")", "]">>

\* the source indexes and the URLs of the citations of the documents
CitationIndexes == { <<"1">>, <<"1","2">> }

CitationUrls ==
    { <<"h","t","t","p","s",":","/","/","e","x","a","m","p","l","e",".","c","o","m">>,
      <<"/","s">> }

\* documents without a fenced block: a sentence with a citation behind it
DocCitations ==
    {<<TextPart(addInlineCitation(<<"f","o","o">>, n, u))>> :
        n \in CitationIndexes, u \in CitationUrls}

\* documents with markup of their own: in the text, in a title, in an inline code
\* span, and in the language tag of a fenced block
DocMarkup ==
    { <<TextPart(<<"x"," ","<","u",">","y","<","/","u",">">>)>>,
      <<TextPart(<<"#"," ","<","u",">","?","\n","\n","h","i">>)>>,
      <<TextPart(<<"s","e","e"," ","96","<","u",">","96">>)>>,
      <<FencePart(<<"u","\"",">">>, <<"a">>)>> }

\* JavaScript code whose keywords and numbers all stand inside a comment
DocCommented ==
    { <<"/","/"," ","i","f"," ","1">>,
      <<"/","*"," ","n","e","w"," ","2","3"," ","*","/"," ","x">> }

\* documents of a header and text, with one line break between them and with two
DocHeaders ==
    { <<TextPart(<<"#"," ","T","\n","h","i">>)>>,
      <<TextPart(<<"#"," ","T","\n","\n","h","i">>)>> }

\* documents of one fenced block whose code holds marks of the markdown syntax
DocMarked ==
    { <<FencePart(<<>>, c)>> : c \in
        { <<"f","(","*","*","a",","," ","*","*","b",")">>,
          <<"*","p"," ","="," ","*","q">>,
          <<"[","a","]","(","b",")">>,
          <<"a"," ","96","b","96"," ","c">>,
          <<"a","\n","b">> } }

\* documents with an opening fence and no closing fence
DocUnclosed ==
    { <<TextPart(<<"96","96","96","j","s","\n","x">>)>>,
      <<TextPart(<<"96","96","96","j","s","\n","x"," ","96","y","96"," ","z">>)>>,
      <<TextPart(<<"a","\n","96","96","96","\n","b"," ","96","c">>)>> }

\* documents with one fenced block, documents with two, and documents with none
Documents ==
    DocCitations
    \cup
    DocUnclosed
    \cup
    DocMarked
    \cup
    DocHeaders
    \cup
    {<<FencePart(<<"j","s">>, c)>> : c \in DocCommented}
    \cup
    DocMarkup
    \cup
    {<<TextPart(t1), FencePart(l, c), TextPart(t2)>> :
        t1 \in DocTextsBefore, l \in DocLanguages, c \in DocBodies, t2 \in DocTextsAfter}
    \cup
    {<<FencePart(<<"j","s">>, c1), TextPart(<<"\n">>), FencePart(<<>>, c2)>> :
        c1 \in DocBodies, c2 \in {<<"a","\n","#"," ","b">>, <<"x"," ","="," ","f"," ","(","1",")">>}}

\* the markdown text of a part
PartText(p) ==
    IF p.fence THEN FenceMark \o p.lang \o <<"\n">> \o p.text \o <<"\n">> \o FenceMark
    ELSE p.text

\* the markdown text of a document
Assemble(ps) == Concat([k \in 1..Len(ps) |-> PartText(ps[k])])

\* the fenced blocks of a document, in order
FenceParts(ps) == SelectSeq(ps, LAMBDA p : p.fence)

\* the text of a document outside its fenced blocks
TextParts(ps) == SelectSeq(ps, LAMBDA p : ~p.fence)

CodeOpenTag == <<"<","c","o","d","e"," ","i","d","=","\"">>
DataAttribute ==
    <<"d","a","t","a","-","o","r","i","g","i","n","a","l","-","c","o","d","e","=","\"">>
OnclickOpen ==
    <<"o","n","c","l","i","c","k","=","\"","c","o","p","y","C","o","d","e","B","l","o","c","k",
      "(","'">>
OnclickClose == <<"'",")","\"">>

\* the positions of the <code id="..."> elements of the document, in order
CodeElements(h) ==
    MatchStarts([i \in {j \in 1..Len(h) : StartsWithAt(h, j, CodeOpenTag)} |->
                    i + Len(CodeOpenTag)], 1)

\* the value of the attribute that opens at position a, up to its closing quote
AttributeValue(h, a) == SubSeq(h, a, IndexOfFrom(h, <<"\"">>, a) - 1)

\* codeBlock.dataset.originalCode of the element at position p
DatasetOriginalCode(h, p) ==
    LET d == IndexOfFrom(h, DataAttribute, p)
    IN IF d > 0 /\ d < IndexOfFrom(h, <<">">>, p)
       THEN AttributeValue(h, d + Len(DataAttribute))
       ELSE Undefined

\* the code blocks of the document the browser builds from the HTML h; codes are the
\* texts the fence callback got, in order
DocumentBlocks(h, codes) ==
    [k \in 1..Len(CodeElements(h)) |->
        LET p == CodeElements(h)[k]
            id == AttributeValue(h, p + Len(CodeOpenTag))
        IN [kind |-> "rendered", id |-> id,
            original |-> IF k <= Len(codes) THEN CodeContent(codes[k]) ELSE <<>>,
            encoded |-> DatasetOriginalCode(h, p), innerText |-> <<>>,
            container |-> TRUE,
            controls |-> IF Contains(h, OnclickOpen \o id \o OnclickClose) THEN 1 ELSE 0,
            runs |-> 0]]

\* the page shows convertMarkdownToHTML(formattedResponse); ids are the digits Math.random gives
RenderDocument(ids) ==
    /\ impl = "template"
    /\ htmlResponse = NoHtml
    /\ htmlResponse' = convertMarkdownToHTML(formattedResponse, ids)
    /\ page' = IF htmlResponse' = Threw THEN <<>>
               ELSE DocumentBlocks(htmlResponse', FenceCodes(NormalizeMarkdown(formattedResponse)))
    /\ button' = [k \in 1..Len(page') |-> IdleButton]
    /\ UNCHANGED <<impl, clipboardApi, copies, timers, clipboard, log, code, parts,
                   formattedResponse, varsProcess, varsDocument, textareas>>

InitRender ==
    /\ InitPage
    /\ impl = "template"
    /\ clipboardApi
    /\ code = <<>>
    /\ parts \in Documents
    /\ formattedResponse = Assemble(parts)
    /\ htmlResponse = NoHtml
    /\ InitProcessIdle

NextRender ==
    \/ \E ids \in [1..Len(FenceParts(parts)) -> IdSuffixes] : RenderDocument(ids)
    \/ \E b \in 1..MaxBlocks : copyCodeBlock(b)
    \/ \E k \in 1..MaxClicks : copyCodeBlock_then(k)
    \/ \E k \in 1..MaxClicks, o \in CopyOutcomes : copyCodeBlock_catch(k, o)
    \/ copyCodeBlock_timeout

SpecRender == InitRender /\ [][NextRender]_vars

(***************************************************************************)
(* formatResponse and processResponse, in response-template.js and in       *)
(* response-formatter.js.  A JavaScript value is a record: undefined, a     *)
(* string with its units, or a response object with its two properties.     *)
(***************************************************************************)
UndefinedValue == [type |-> "undefined"]
StringValue(s) == [type |-> "string", value |-> s]
ObjectValue(answer, imageUrl) == [type |-> "object", answer |-> answer, imageUrl |-> imageUrl]

\* String(v) for a string or undefined
ToJsString(v) == IF v.type = "string" THEN v.value ELSE Undefined

\* formatterTemplate.format
FormatterTemplateFormat ==
    <<"#"," ","{","t","i","t","l","e","}","\n","\n","{","a","n","s","w","e","r","}">>

TitlePlaceholder ==
    <<"{","t","i","t","l","e","}">>

AnswerPlaceholder ==
    <<"{","a","n","s","w","e","r","}">>

\* the pieces of the template literal of the image branch of window.processResponse
ImageTemplate ==
    << <<"\n"," "," "," "," "," "," "," "," "," "," "," "," "," "," "," "," ","<","d","i","v"," ","c",
           "l","a","s","s","=","\"","i","m","a","g","e","-","s","y","n","t","h","e","s","i","s","-","c",
           "o","n","t","a","i","n","e","r","\"",">","\n"," "," "," "," "," "," "," "," "," "," "," "," ",
           " "," "," "," "," "," "," "," ","<","i","m","g"," ","s","r","c","=","\"">>,
       <<"\""," ","a","l","t","=","\"","G","e","n","e","r","a","t","e","d"," ","I","m","a","g","e",
           "\""," ","c","l","a","s","s","=","\"","g","e","n","e","r","a","t","e","d","-","i","m","a","g",
           "e","\"",">","\n"," "," "," "," "," "," "," "," "," "," "," "," "," "," "," "," "," "," "," ",
           " ","<","a"," ","h","r","e","f","=","\"">>,
       <<"\""," ","d","o","w","n","l","o","a","d","=","\"","g","e","n","e","r","a","t","e","d","_","i",
           "m","a","g","e",".","p","n","g","\""," ","c","l","a","s","s","=","\"","d","o","w","n","l","o",
           "a","d","-","i","m","a","g","e","-","b","t","n","\"",">","\n"," "," "," "," "," "," "," "," ",
           " "," "," "," "," "," "," "," "," "," "," "," "," "," "," "," ","D","o","w","n","l","o","a",
           "d"," ","I","m","a","g","e","\n"," "," "," "," "," "," "," "," "," "," "," "," "," "," "," ",
           " "," "," "," "," ","<","/","a",">","\n"," "," "," "," "," "," "," "," "," "," "," "," "," ",
           " "," "," ","<","/","d","i","v",">","\n"," "," "," "," "," "," "," "," "," "," "," "," ">> >>

\* what window.processResponse returns from its catch
ErrorFragment ==
    <<"<","p",">","E","r","r","o","r"," ","p","r","o","c","e","s","s","i","n","g"," ","r","e","s",
      "p","o","n","s","e","."," ","P","l","e","a","s","e"," ","t","r","y"," ","a","g","a","i","n",
      ".","<","/","p",">">>

\* the questions of the calls of processResponse
Queries ==
    { UndefinedValue,
      StringValue(<<>>),
      StringValue(<<"q">>),
      StringValue(<<"w","h","y","?">>),
      StringValue(<<"a","$","&","b">>),
      StringValue(<<"{","a","n","s","w","e","r","}">>),
      StringValue(<<"$","'">>) }

\* the answers of the response objects
Answers ==
    { StringValue(<<"h","i">>),
      StringValue(<<>>),
      StringValue(<<"1","$","$","2">>),
      StringValue(<<"x"," ","*","*","b","*","*","\n","\n","\n","y">>),
      StringValue(<<"96","96","96","j","s","\n","i","f"," ","(","a",")"," ","b","\n","96","96","96">>),
      \* a fenced block with indented lines
      StringValue(<<"96","96","96","\n","i","f"," ","a",":","\n"," "," "," "," ","b","\n","96","96","96">>),
      \* a fenced block with two keywords next to each other
      StringValue(<<"96","96","96","j","s","\n","r","e","t","u","r","n"," ","n","e","w"," ","A","\n","96","96","96">>),
      \* a fenced block whose code is half of a surrogate pair
      StringValue(<<"96","96","96","\n">> \o <<"55357">> \o <<"\n","96","96","96">>) }

\* the response objects of the calls: none, one without properties, answers, an image
Responses ==
    {UndefinedValue, ObjectValue(UndefinedValue, UndefinedValue),
     ObjectValue(UndefinedValue, StringValue(<<"/","i","/","u",".","p","n","g">>)),
     ObjectValue(StringValue(<<"*","h","i","*">>), StringValue(<<"/","i","/","u",".","p","n","g">>)),
     ObjectValue(StringValue(<<"h","i">>), StringValue(<<>>))}
    \cup {ObjectValue(a, UndefinedValue) : a \in Answers}
\* the special patterns of a replacement string: $$, $&, $` and $'
DollarMatch(r, i) ==
    IF r[i] = "$" /\ i + 1 <= Len(r) /\ r[i + 1] \in {"$", "&", Backtick, "'"}
    THEN i + 2
    ELSE 0

\* the replacement string r as it is inserted for the match s[i..e-1]
ExpandReplacement(r, s, i, e) ==
    ReplaceAll(r, DollarMatch,
               LAMBDA t, j, f :
                   IF t[j + 1] = "$" THEN <<"$">>
                   ELSE IF t[j + 1] = "&" THEN SubSeq(s, i, e - 1)
                   ELSE IF t[j + 1] = Backtick THEN SubSeq(s, 1, i - 1)
                   ELSE SubSeq(s, e, Len(s)))

\* s.replace(pattern, replacement) with a string pattern: the first occurrence only
ReplaceString(s, pattern, replacement) ==
    LET i == IndexOfFrom(s, pattern, 1)
    IN IF i = 0 THEN s
       ELSE SubSeq(s, 1, i - 1)
            \o ExpandReplacement(replacement, s, i, i + Len(pattern))
            \o SubSeq(s, i + Len(pattern), Len(s))

\* question.endsWith('?') ? question : question + '?'
Title(question) ==
    IF Len(question) > 0 /\ question[Len(question)] = "?"
    THEN question
    ELSE question \o <<"?">>

\* formatResponse(question, answer): the text, or Threw (TypeError) when question
\* is not a string
formatResponse(question, answer) ==
    IF question.type # "string" THEN Threw
    ELSE ReplaceString(ReplaceString(FormatterTemplateFormat, TitlePlaceholder,
                                     Title(question.value)),
                       AnswerPlaceholder, ToJsString(answer))

\* .replace(/\s+/g, ' '): every run of white space becomes one blank
CollapseWhiteSpace(s) ==
    IF s = <<>> THEN s
    ELSE Concat([i \in 1..Len(s) |->
            IF s[i] \notin SpaceChars THEN <<s[i]>>
            ELSE IF i = 1 \/ s[i - 1] \notin SpaceChars THEN <<" ">>
            ELSE <<>>])

\* .replace(/>\s+</g, '><'): the white space between a > and a < goes
DropWhiteSpaceBetweenTags(s) ==
    IF s = <<>> THEN s
    ELSE Concat([i \in 1..Len(s) |->
            IF s[i] \notin SpaceChars THEN <<s[i]>>
            ELSE LET a == Max({j \in 0..(i - 1) : j = 0 \/ s[j] \notin SpaceChars})
                     b == RunEnd(s, i, SpaceChars)
                 IN IF a > 0 /\ b <= Len(s) /\ s[a] = ">" /\ s[b] = "<"
                    THEN <<>> ELSE <<s[i]>>])

\* htmlResponse.trim().replace(/\s+/g, ' ').replace(/>\s+</g, '><')
CleanUp(h) == DropWhiteSpaceBetweenTags(CollapseWhiteSpace(Trim(h)))

\* how a call ended
Fulfilled(v) == [status |-> "fulfilled", value |-> v]
Rejected(e) == [status |-> "rejected", value |-> e]
Returned(v) == [status |-> "returned", value |-> v]

\* async processResponse(query, aiResponse) of response-template.js: the promise it
\* returns is fulfilled with the HTML, or rejected with what the body threw
processResponse(ids) ==
    /\ impl = "template"
    /\ result.status = "none"
    /\ LET formatted == IF request.aiResponse.type # "object" THEN Threw
                        ELSE formatResponse(request.query, request.aiResponse.answer)
           converted == IF formatted = Threw THEN Threw
                        ELSE convertMarkdownToHTML(formatted, ids)
       IN /\ formattedResponse' = IF formatted = Threw THEN formattedResponse ELSE formatted
          /\ htmlResponse' = IF formatted = Threw THEN htmlResponse ELSE converted
          /\ result' = IF formatted = Threw THEN Rejected(<<"TypeError">>)
                       ELSE IF converted = Threw THEN Rejected(<<"URIError">>)
                       ELSE Fulfilled(CleanUp(converted))
          /\ log' = log
    /\ UNCHANGED <<impl, clipboardApi, page, button, copies, timers, clipboard, code,
                   parts, request, varsDocument, textareas>>

\* what convertMarkdownToHTML of response-formatter.js returns for a text: the
\* rendering is the work of the markdown-it library, which the page loads
MarkdownIt(markdown) == <<"markdown-it">> \o markdown

\* window.processResponse without its image branch
window_processResponse_markdown ==
    /\ impl = "window"
    /\ result.status = "none"
    /\ LET data == request.aiResponse
           formatted == IF data.type # "object" THEN Threw
                        ELSE formatResponse(request.query, data.answer)
           threw == formatted = Threw \/ ~request.markdownit
       IN /\ formattedResponse' = IF formatted = Threw THEN formattedResponse ELSE formatted
          /\ htmlResponse' = IF threw THEN htmlResponse ELSE MarkdownIt(formatted)
          /\ result' = IF threw THEN Returned(ErrorFragment)
                       ELSE Returned(MarkdownIt(formatted))
          /\ log' = IF threw THEN Append(log, "Error processing response") ELSE log
    /\ UNCHANGED <<impl, clipboardApi, page, button, copies, timers, clipboard, code,
                   parts, request, varsDocument, textareas>>

\* window.processResponse(prompt, data) of response-formatter.js
window_processResponse ==
    /\ impl = "window"
    /\ result.status = "none"
    /\ LET data == request.aiResponse
           image == data.type = "object" /\ data.imageUrl.type = "string"
                    /\ data.imageUrl.value # <<>>
           formatted == IF data.type # "object" THEN Threw
                        ELSE formatResponse(request.query, data.answer)
           threw == \/ data.type # "object"
                    \/ ~image /\ (formatted = Threw \/ ~request.markdownit)
       IN /\ formattedResponse' = IF image \/ formatted = Threw THEN formattedResponse
                                  ELSE formatted
          /\ htmlResponse' = IF threw \/ image THEN htmlResponse ELSE MarkdownIt(formatted)
          /\ result' = IF threw THEN Returned(ErrorFragment)
                       ELSE IF image
                       THEN Returned(ImageTemplate[1] \o data.imageUrl.value \o ImageTemplate[2]
                                     \o data.imageUrl.value \o ImageTemplate[3])
                       ELSE Returned(MarkdownIt(formatted))
          /\ log' = IF threw THEN Append(log, "Error processing response") ELSE log
    /\ UNCHANGED <<impl, clipboardApi, page, button, copies, timers, clipboard, code,
                   parts, request, varsDocument, textareas>>

\* a call of processResponse: its arguments, and whether the page has loaded markdown-it
Requests ==
    [query : Queries, aiResponse : Responses, markdownit : BOOLEAN]

InitProcess ==
    /\ InitPage
    /\ clipboardApi
    /\ code = <<>>
    /\ InitRenderIdle
    /\ request \in Requests
    /\ impl = "template" => request.markdownit
    /\ result = [status |-> "none"]

\* the number of fenced blocks of the text the call hands to convertMarkdownToHTML
RequestFences ==
    IF request.aiResponse.type # "object" \/ request.query.type # "string" THEN 0
    ELSE Len(FenceStarts(NormalizeMarkdown(
                 formatResponse(request.query, request.aiResponse.answer))))

NextProcess ==
    \/ \E ids \in [1..RequestFences -> IdSuffixes] : processResponse(ids)
    \/ window_processResponse

SpecProcess == InitProcess /\ [][NextProcess]_vars

(***************************************************************************)
(* The fenced block of a document with one block, rendered by               *)
(* response-template.js and by the fence rule of response-formatter.js.     *)
(* Prism is a library of the page: what Prism.highlight returns is kept as  *)
(* the call that was made.                                                  *)
(***************************************************************************)
Markup == <<"m","a","r","k","u","p">>

\* the grammars a page's Prism may have loaded; none when Prism is not loaded
PrismBuilds ==
    { {},
      {Markup},
      {Markup, <<"j","a","v","a","s","c","r","i","p","t">>, <<"j","s">>} }

\* const language = token.info.trim()
FenceTokenLanguage(info) == Trim(info)

\* language && window.Prism && window.Prism.languages[language] ? language : 'markup'
prismLanguage(language) ==
    IF language # <<>> /\ language \in prism THEN language ELSE Markup

\* Prism.highlight(codeContent, window.Prism.languages[language], language)
Prism_highlight(codeContent, language) ==
    <<"Prism.highlight">> \o language \o <<"Prism.code">> \o codeContent

\* highlightedCode: the escaped content unless Prism has the grammar
highlightedCode(language, codeContent) ==
    IF prismLanguage(language) \in prism
    THEN Prism_highlight(codeContent, prismLanguage(language))
    ELSE escapeHtml(codeContent)

\* the text the fence rule returns for a token, suffix being what Math.random gives
md_renderer_rules_fence(info, content, suffix) ==
    <<"\n"," "," "," "," "," "," "," "," "," "," "," "," ","<","d","i","v"," ","c","l",
      "a","s","s","=","\"","c","o","d","e","-","b","l","o","c","k","-","c","o","n","t",
      "a","i","n","e","r","\"",">","\n"," "," "," "," "," "," "," "," "," "," "," "," ",
      " "," "," "," ","<","d","i","v"," ","c","l","a","s","s","=","\"","c","o","d","e",
      "-","b","l","o","c","k","-","h","e","a","d","e","r","\"",">","\n"," "," "," "," ",
      " "," "," "," "," "," "," "," "," "," "," "," "," "," "," "," ","<","s","p","a","n",
      " ","c","l","a","s","s","=","\"","c","o","d","e","-","l","a","n","g","u","a","g",
      "e","\"",">">>
    \o (IF FenceTokenLanguage(info) # <<>> THEN FenceTokenLanguage(info)
        ELSE <<"c","o","d","e">>)
    \o <<"<","/","s","p","a","n",">","\n"," "," "," "," "," "," "," "," "," "," "," "," ",
      " "," "," "," "," "," "," "," ","<","b","u","t","t","o","n"," ","c","l","a","s","s",
      "=","\"","c","o","d","e","-","c","o","p","y","-","b","t","n","\""," ","o","n","c",
      "l","i","c","k","=","\"","w","i","n","d","o","w",".","c","o","p","y","C","o","d",
      "e","B","l","o","c","k","(","t","h","i","s",")","\"",">","55357","56523","<","/",
      "b","u","t","t","o","n",">","\n"," "," "," "," "," "," "," "," "," "," "," "," ",
      " "," "," "," ","<","/","d","i","v",">","\n"," "," "," "," "," "," "," "," "," ",
      " "," "," "," "," "," "," ","<","p","r","e",">","<","c","o","d","e"," ","i","d","=",
      "\"">>
    \o CodeBlockId(suffix)
    \o <<"\""," ","c","l","a","s","s","=","\"","l","a","n","g","u","a","g","e","-">>
    \o prismLanguage(FenceTokenLanguage(info))
    \o <<"\"",">">>
    \o highlightedCode(FenceTokenLanguage(info), FenceTokenContent(content))
    \o <<"<","/","c","o","d","e",">","<","/","p","r","e",">","\n"," "," "," "," "," "," ",
      " "," "," "," "," "," ","<","/","d","i","v",">","\n"," "," "," "," "," "," "," ",
      " ","96",";","\n"," "," "," "," "," "," "," "," ">>

\* markdown-it renders the fence token of the document with the fence rule
RenderFenceRule(suffix) ==
    /\ impl = "window"
    /\ htmlResponse = NoHtml
    /\ htmlResponse' = md_renderer_rules_fence(parts[1].lang, parts[1].text \o <<"\n">>, suffix)
    /\ UNCHANGED <<varsPage, code, parts, formattedResponse, varsProcess, varsDocument, textareas>>

\* the language tags and the code of the fenced blocks
FenceTags ==
    { <<>>, <<"j","s">>, <<"J","S">>, <<"j","a","v","a","s","c","r","i","p","t">>,
      <<"t","x","t">> }
FenceBodies ==
    { <<"l","e","t"," ","a"," ","="," ","1">>,
      <<"i","f"," ","(","a"," ","<"," ","b",")"," ","c">> }

InitFence ==
    /\ impl \in {"template", "window"}
    /\ clipboardApi = TRUE
    /\ page = <<>>
    /\ button = <<>>
    /\ copies = <<>>
    /\ timers = <<>>
    /\ clipboard = NoText
    /\ log = <<>>
    /\ readyState = "complete"
    /\ removed = {}
    /\ uncaught = <<>>
    /\ prism \in PrismBuilds
    /\ impl = "template" => prism = {}
    /\ textareas = 0
    /\ code = <<>>
    /\ parts \in {<<FencePart(l, c)>> : l \in FenceTags, c \in FenceBodies}
    /\ formattedResponse = Assemble(parts)
    /\ htmlResponse = NoHtml
    /\ InitProcessIdle

NextFence ==
    \/ \E ids \in [1..1 -> IdSuffixes] : RenderDocument(ids)
    \/ \E suffix \in IdSuffixes : RenderFenceRule(suffix)

SpecFence == InitFence /\ [][NextFence]_vars

(***************************************************************************)
(* Copying from rendered blocks whose preserved text can and cannot be      *)
(* decoded: documents of one fenced block, among them the block whose       *)
(* language tag ends the opening tag of the code element early, so that     *)
(* the element has no data-original-code attribute.                         *)
(***************************************************************************)
InitDecode ==
    /\ InitPage
    /\ impl = "template"
    /\ code = <<>>
    /\ parts \in DocMarked \cup {d \in DocMarkup : d[1].fence}
    /\ formattedResponse = Assemble(parts)
    /\ htmlResponse = NoHtml
    /\ InitProcessIdle

SpecDecode == InitDecode /\ [][NextRender]_vars

(***************************************************************************)
(* Claims                                                                  *)
(***************************************************************************)

WordOccurrences(s, w) ==
    Cardinality({i \in 1..Len(s) :
        StartsWithAt(s, i, w) /\ WordBoundary(s, i) /\ WordBoundary(s, i + Len(w))})

\* the tags written in the text s: < and > around letters
TagsIn(s) ==
    {SubSeq(s, i, RunEnd(s, i + 1, Letters)) :
        i \in {j \in 1..Len(s) : s[j] = "<" /\ RunEnd(s, j + 1, Letters) > j + 1
                                  /\ RunEnd(s, j + 1, Letters) <= Len(s)
                                  /\ s[RunEnd(s, j + 1, Letters)] = ">"}}

\* the number of lines of the text s that start with the header marks
HeaderLines(s, marks) ==
    Cardinality({i \in 1..Len(s) : LineStart(s, i) /\ StartsWithAt(s, i, marks)})

\* is the document rendered
Rendered == htmlResponse # NoHtml /\ htmlResponse # Threw

\* the sum of f over the parts of a sequence
RECURSIVE SumOver(_, _)
SumOver(ps, k) == IF k = 0 THEN 0 ELSE ps[k] + SumOver(ps, k - 1)

\* C2: for every document with a fenced block of body c, what the copy control of
\* the rendered block writes to the clipboard is c without its leading and trailing
\* empty lines: interior blank lines and the indentation of every line are kept
\* (stated for the blocks whose id no other block of the page has).
C2_CopyVerbatim ==
    (/\ Rendered
     /\ clipboard # NoText
     /\ \A b \in 1..Len(page) : page[b].id = page[clipboard.by].id => b = clipboard.by)
    => clipboard.text = StripNewlines(FenceParts(parts)[clipboard.by].text)

\* C3: when a fenced block with language js is rendered, no tag written in the code
\* appears unescaped in the output, and every keyword of the code stands in one
\* intact keyword span: the output has as many intact spans of a keyword as the
\* code has occurrences of it.
C3_EscapedThenHighlighted ==
    Rendered =>
        LET js == SelectSeq(FenceParts(parts), LAMBDA f : f.lang = <<"j","s">>)
            inCode(kw) == SumOver([k \in 1..Len(js) |-> WordOccurrences(js[k].text, kw)],
                                  Len(js))
        IN /\ \A k \in 1..Len(js) : \A t \in TagsIn(js[k].text) : ~Contains(htmlResponse, t)
           /\ \A kw \in JsKeywords :
                  inCode(kw) > 0 => Occurrences(htmlResponse, Span(JsClass.keyword, kw)) = inCode(kw)

\* C4: no header element is made from text inside a fenced block: the output has
\* as many <h1>, <h2> and <h3> elements as the text outside the fenced blocks has
\* lines that start with "# ", "## " and "### ".
C4_NoHeaderInFence ==
    Rendered =>
        \A level \in 1..3 :
            LET marks == [i \in 1..level |-> "#"] \o <<" ">>
                tag == <<"<", "h", ToString(level), ">">>
                texts == TextParts(parts)
            IN Occurrences(htmlResponse, tag)
                   = SumOver([k \in 1..Len(texts) |-> HeaderLines(texts[k].text, marks)],
                             Len(texts))

\* C10: processResponse never lets an exception reach its caller: every call
\* returns (or fulfils its promise), and when formatting or rendering failed
\* what it gives is the error fragment.
C10_NeverThrows ==
    result.status # "none" =>
        /\ result.status \in {"returned", "fulfilled"}
        /\ (request.aiResponse.type # "object" \/ request.query.type # "string")
               => result.value = ErrorFragment

\* C5: once addCopyButtons has run on a code block (once or several times), the
\* block has exactly one copy control, whether addCopyButtons wrapped the bare
\* block itself or the renderer had emitted it with a container and a control.
C5_OneControlPerBlock ==
    \A b \in 1..Len(page) : page[b].runs >= 1 => page[b].controls = 1

\* addCopyButtons has run twice over a bare block and over a rendered block
C5_Witness ==
    \E b, c \in 1..Len(page) :
        /\ page[b].kind = "bare" /\ page[b].runs >= 2 /\ page[b].controls = 1
        /\ page[c].kind = "rendered" /\ page[c].runs >= 2 /\ page[c].controls = 1

\* C6: after activations that all succeeded, once every reset timer has fired,
\* every control shows the content and styling it had before the first activation.
C6_IdleAfterTimers ==
    (/\ timers = <<>>
     /\ \A k \in 1..Len(copies) : copies[k].primary = "resolved")
    => \A b \in 1..Len(button) : button[b] = IdleButton

\* C7: at every moment at most one reset timer is pending per control.
C7_OneTimerPerControl ==
    \A t \in 1..Len(button) :
        Cardinality({i \in 1..Len(timers) : timers[i].target = t}) <= 1

\* C8: when every clipboard write so far failed and the fallback copy command
\* failed too (it returned false or threw), no control shows "Copied!" and the
\* failure is logged.
C8_NoCopiedOnFailure ==
    (/\ copies # <<>>
     /\ \A k \in 1..Len(copies) :
            /\ copies[k].primary \in {"rejected", "unavailable"}
            /\ copies[k].fallback \in {"false", "throws"})
    => /\ \A b \in 1..Len(button) : button[b] = IdleButton
       /\ log # <<>>

\* C9: for every activation, if the clipboard API is unavailable or its write was
\* rejected, the fallback has been invoked with the text of the activation.
C9_FallbackInvoked ==
    \A k \in 1..Len(copies) :
        copies[k].primary \in {"rejected", "unavailable"} => copies[k].fallback # "none"

\* a question with "?" behind it unless it ends in one
Questioned(q) ==
    IF q # <<>> /\ q[Len(q)] = "?" THEN q ELSE q \o <<"?">>

\* a call whose question is a string has been formatted
Formatted ==
    /\ request.query.type = "string"
    /\ request.aiResponse.type = "object"
    /\ formattedResponse # <<>>

\* C11: the title of the text formatResponse(q, a) returns, the text between the
\* leading "# " and the two line breaks, is q + "?" when q does not end in "?"
\* and q unchanged when it does, for every question q, the empty one included.
C11_TitleOfQuestion ==
    Formatted =>
        StartsWithAt(formattedResponse, 1,
                     <<"#", " ">> \o Questioned(request.query.value) \o <<"\n", "\n">>)

\* C12: formatResponse(question, answer) is exactly "# " + title + two line breaks
\* + answer, the answer complete and character for character, also when the
\* question or the answer holds a placeholder text or a $ sequence.
C12_FormatExact ==
    (Formatted /\ request.aiResponse.answer.type = "string") =>
        formattedResponse = <<"#", " ">> \o Questioned(request.query.value)
                            \o <<"\n", "\n">> \o request.aiResponse.answer.value

\* the a elements of the document the browser builds from the HTML h: the value of
\* href and the text between the tags
AnchorOpen == <<"<","a"," ","h","r","e","f","=","\"">>

AnchorClose == <<"<","/","a",">">>

Anchors(h) ==
    {[href |-> AttributeValue(h, i + Len(AnchorOpen)),
      text |-> LET gt == IndexOfFrom(h, <<">">>, i)
               IN SubSeq(h, gt + 1, IndexOfFrom(h, AnchorClose, gt) - 1)] :
        i \in {j \in 1..Len(h) : StartsWithAt(h, j, AnchorOpen)}}

\* C13: for every index n and URL u, a text with the citation marker [[n](u)], as
\* addInlineCitation writes it, is rendered with an anchor whose visible text is
\* exactly [n] and whose href is u.
C13_CitationAnchor ==
    Rendered =>
        \A n \in CitationIndexes, u \in CitationUrls :
            Contains(formattedResponse, addInlineCitation(<<>>, n, u)) =>
                \E a \in Anchors(htmlResponse) :
                    a.href = u /\ a.text = <<"[">> \o n \o <<"]">>

\* the img elements of the document the browser builds from the HTML h: the values
\* of src
ImageOpen == <<"<","i","m","g"," ","s","r","c","=","\"">>

Images(h) ==
    {AttributeValue(h, i + Len(ImageOpen)) :
        i \in {j \in 1..Len(h) : StartsWithAt(h, j, ImageOpen)}}

\* the download controls of h: the values of href of the anchors with a download
\* attribute
DownloadOpen == <<"\""," ","d","o","w","n","l","o","a","d","=","\"">>

Downloads(h) ==
    {AttributeValue(h, i + Len(AnchorOpen)) :
        i \in {j \in 1..Len(h) :
                  /\ StartsWithAt(h, j, AnchorOpen)
                  /\ StartsWithAt(h, IndexOfFrom(h, <<"\"">>, j + Len(AnchorOpen)), DownloadOpen)}}

\* window.processResponse has returned for a response object
WindowReturned ==
    /\ impl = "window"
    /\ result.status # "none"
    /\ request.aiResponse.type = "object"

\* the response carries an image URL
CarriesImage ==
    /\ request.aiResponse.imageUrl.type = "string"
    /\ request.aiResponse.imageUrl.value # <<>>

\* C14: for a response with an imageUrl, window.processResponse returns a fragment
\* with an image element and a download control that both reference exactly that
\* URL, and neither formatResponse nor the markdown renderer has been applied; for
\* a response without imageUrl the markdown path is taken.
C14_ImageBypassesMarkdown ==
    WindowReturned =>
        IF CarriesImage
        THEN /\ result.status = "returned"
             /\ Images(result.value) = {request.aiResponse.imageUrl.value}
             /\ Downloads(result.value) = {request.aiResponse.imageUrl.value}
             /\ formattedResponse = <<>>
             /\ htmlResponse = NoHtml
        ELSE \/ /\ formattedResponse # <<>>
                /\ htmlResponse = MarkdownIt(formattedResponse)
                /\ result = Returned(htmlResponse)
             \/ /\ request.query.type # "string" \/ ~request.markdownit
                /\ result = Returned(ErrorFragment)

\* a response with an answer and an imageUrl has been processed
C14_Witness ==
    /\ WindowReturned
    /\ CarriesImage
    /\ request.aiResponse.answer.type = "string"
    /\ request.query.type = "string"
    /\ Images(result.value) # {}

\* C15: the identifiers generated for the code blocks of one render pass are
\* pairwise distinct, so the identifier on a block's copy control locates that
\* block's own original text and never another block's.
C15_DistinctIds ==
    Rendered =>
        /\ \A a, b \in 1..Len(page) : a # b => page[a].id # page[b].id
        /\ \A b \in 1..Len(page) : getElementById(page[b].id) = b

\* C16: every code block that comes into the document after the initial load
\* eventually has a working copy control: the attachment routine runs for content
\* added after DOMContentLoaded, not only once at load.
C16_DynamicBlocksGetControl ==
    \A b \in 1..MaxBlocks :
        (readyState # "loading" /\ b \in 1..Len(page) /\ page[b].controls = 0)
            ~> (b \in 1..Len(page) /\ page[b].controls > 0)

\* C17: when a block is taken out of the document while a clipboard write its
\* control started is pending, the continuation, the fallback path and the reset
\* timer complete without throwing.
C17_AbandonedCopyDoesNotThrow ==
    removed # {} => uncaught = <<>>

\* the only write of the page was pending when its block left the document; it
\* was rejected, the fallback copied and acknowledged, and the reset timer has run
C17_Witness ==
    /\ impl = "window"
    /\ timers = <<>>
    /\ Len(copies) = 1
    /\ copies[1].by \in removed
    /\ copies[1].primary = "rejected"
    /\ copies[1].fallback = "true"
    /\ clipboard = [by |-> copies[1].by, text |-> copies[1].text]
    /\ button[copies[1].by] = IdleButton

\* markup that documents bring along: a tag, and a quote with the > behind it
InputMarkup ==
    { <<"<","u",">">>, <<"<","b",">">>, <<"u","\"",">">> }

\* C18: the output of the renderer is sanitized: a <, > or quote character of the
\* document (in the answer text, the title, an inline code span or the language
\* tag of a fence) is in the output only in escaped form, so the markup a document
\* brings along is nowhere in the output as it was written.
C18_InputMarkupEscaped ==
    Rendered =>
        \A m \in InputMarkup :
            Contains(formattedResponse, m) => ~Contains(htmlResponse, m)

\* the document is one block of JavaScript whose keywords and numbers are in comments
CommentedCode ==
    /\ Len(parts) = 1
    /\ parts[1].fence
    /\ parts[1].text \in DocCommented

\* C19: comments and strings take precedence over keywords, function names and
\* numbers: a keyword or a number inside a comment or a string literal of the code
\* is never wrapped in a keyword span or a number span.
C19_CommentsBeforeKeywords ==
    (Rendered /\ CommentedCode) =>
        /\ ~Contains(htmlResponse, <<"j", "s", "-">> \o JsClass.keyword)
        /\ ~Contains(htmlResponse, <<"j", "s", "-">> \o JsClass.number)

\* the span markup of the JavaScript highlighter: an opening tag of one of its
\* classes, or a closing tag
SpanMarkupMatch(s, i) ==
    IF StartsWithAt(s, i, SpanClose) THEN i + Len(SpanClose)
    ELSE LET classes == {c \in {JsClass.keyword, JsClass.function, JsClass.comment,
                                JsClass.string, JsClass.number} :
                            StartsWithAt(s, i, SpanOpen(c))}
         IN IF classes = {} THEN 0
            ELSE i + Len(SpanOpen(CHOOSE c \in classes : TRUE))

\* h without the span markup of the highlighter, also where a later replacement
\* has put a span into the opening tag of an earlier one
StripSpans(h) ==
    LET Strip(x) == ReplaceAll(x, SpanMarkupMatch, LAMBDA s, i, e : <<>>)
    IN Strip(Strip(h))

CodeClose == <<"<","/","c","o","d","e",">">>

\* C20: highlighting only wraps text: taking the span markup of the highlighter out
\* of the highlighted code gives back the escaped code character for character.
\* Checked on the one-line JavaScript blocks of the documents, whose code no other
\* replacement touches.
C20_HighlightOnlyWraps ==
    Rendered =>
        \A k \in 1..Len(parts) :
            (/\ parts[k].fence
             /\ ToLowerCase(parts[k].lang) \in JavaScriptTags
             /\ ~Contains(parts[k].text, <<"\n">>))
            => Contains(StripSpans(htmlResponse),
                        <<"\"", ">">> \o EscapeForDisplay(parts[k].text) \o CodeClose)

\* the language names the highlighting is written for
SupportedLanguages ==
    { <<"j","a","v","a","s","c","r","i","p","t">>, <<"j","s">>,
      <<"p","y","t","h","o","n">>, <<"p","y">>,
      <<"h","t","m","l">>, <<"x","m","l">>, <<"c","s","s">> }

\* the rendered block shows the text d in its code element
Displays(d) == Contains(htmlResponse, <<"\"", ">">> \o d \o CodeClose)

\* C21: the highlighter runs exactly when the language tag of the fence, compared
\* without regard to case, names a supported language; for any other tag and for no
\* tag the block shows the escaped code and nothing else.  The blocks of the
\* documents hold a keyword, so a run of the JavaScript highlighter of
\* response-template.js shows as a keyword span; a run of Prism shows as the call of
\* Prism.highlight, expected only where the page's Prism has the grammar.
C21_HighlightIffSupported ==
    Rendered =>
        LET tag == ToLowerCase(Trim(parts[1].lang))
            codeContent == parts[1].text
        IN IF impl = "template"
           THEN /\ Contains(htmlResponse, <<"j","s","-">> \o JsClass.keyword)
                    <=> tag \in SupportedLanguages
                /\ tag \notin SupportedLanguages => Displays(escapeHtml(codeContent))
           ELSE /\ tag \in SupportedLanguages /\ tag \in prism
                    => Displays(Prism_highlight(codeContent, tag))
                /\ tag \notin SupportedLanguages => Displays(escapeHtml(codeContent))

ParagraphOpen == <<"<","p",">">>
ParagraphClose == <<"<","/","p",">">>
ContainerOpen ==
    <<"<","d","i","v"," ","c","l","a","s","s","=","\"","c","o","d","e","-","b","l","o","c","k","-",
      "c","o","n","t","a","i","n","e","r","\"",">">>

\* the positions of the text h where a header element or a code-block container opens
BlockElements(h) ==
    {j \in 1..Len(h) :
        \/ StartsWithAt(h, j, ContainerOpen)
        \/ \E n \in {"1", "2", "3", "4", "5", "6"} : StartsWithAt(h, j, <<"<", "h", n, ">">>)}

\* position j of the text h lies in a paragraph element: the last paragraph tag
\* before it is an opening one
InParagraph(h, j) ==
    LET opens == {i \in 1..(j - 1) : StartsWithAt(h, i, ParagraphOpen)}
        closes == {i \in 1..(j - 1) : StartsWithAt(h, i, ParagraphClose)}
    IN opens # {} /\ (closes = {} \/ Max(closes) < Max(opens))

\* C22: in the output of the renderer no header element and no code-block
\* container lies inside a paragraph element.
C22_NoBlockInParagraph ==
    Rendered => \A j \in BlockElements(htmlResponse) : ~InParagraph(htmlResponse, j)

\* the markup the transforms behind the fenced-block replacement write
MarkdownMarkup ==
    { <<"<","s","t","r","o","n","g",">">>, <<"<","e","m",">">>, <<"<","a"," ">>,
      <<"<","c","o","d","e"," ","c","l","a","s","s","=">>, <<"<","b","r",">">>,
      ParagraphOpen, ParagraphClose }

\* the code element that opens at position p of the text h, up to its closing tag
CodeElement(h, p) ==
    SubSeq(h, p, IF IndexOfFrom(h, CodeClose, p) > 0 THEN IndexOfFrom(h, CodeClose, p) - 1
                 ELSE Len(h))

\* C23: the code of a fenced block is out of reach of the transforms that follow the
\* fenced-block replacement: no code element of the output holds markup of the
\* inline-code, bold, italic, link, paragraph or line-break transform.
C23_CodeShielded ==
    Rendered =>
        \A k \in 1..Len(CodeElements(htmlResponse)) : \A m \in MarkdownMarkup :
            ~Contains(CodeElement(htmlResponse, CodeElements(htmlResponse)[k]), m)

\* the document has a fence mark and no fenced block
Unclosed ==
    /\ Contains(formattedResponse, FenceMark)
    /\ FenceCodes(NormalizeMarkdown(formattedResponse)) = <<>>

\* C24: a document with an opening fence and no closing fence is rendered without
\* an exception and without a code-block container, and the three backticks of the
\* fence stand in the output as they were written, also when single backticks follow.
C24_UnclosedFenceLiteral ==
    htmlResponse # NoHtml /\ Unclosed =>
        /\ htmlResponse # Threw
        /\ ~Contains(htmlResponse, ContainerOpen)
        /\ Contains(htmlResponse, FenceMark)

\* the activation that is added in this step, or 0
Activated == IF Len(copies') > Len(copies) THEN Len(copies') ELSE 0

\* decoding the preserved text fails for the block an activation with the id finds
DecodingFailsFor(id) ==
    /\ impl = "template"
    /\ getElementById(id) > 0
    /\ DecodeOriginalCode(page[getElementById(id)].encoded) = Threw

\* decoding the preserved text fails for the block the activation k looks up
DecodingFails(k) == DecodingFailsFor(copies[k].id)

\* C25: when decoding the preserved text of a block fails at the activation of its
\* control, the failure is logged and nothing else happens: no text goes to the
\* clipboard, no write and no fallback copy is started then or later, the controls
\* and their timers are as before, and no exception is left uncaught.
C25_DecodeFailureAborts ==
    [][ /\ Activated > 0 /\ DecodingFailsFor(copies'[Activated].id)
            => /\ log' = Append(log, "Failed to decode code")
               /\ copies'[Activated].fallback = "none"
               /\ copies'[Activated].primary \notin {"pending", "resolved", "rejected"}
               /\ UNCHANGED <<clipboard, button, timers, uncaught, textareas>>
        /\ \A k \in 1..Len(copies) : DecodingFails(k) => copies'[k] = copies[k]
      ]_vars

\* the control of a block whose preserved text cannot be decoded has been activated
C25_Witness ==
    \E k \in 1..Len(copies) :
        /\ DecodingFails(k)
        /\ copies[k].primary = "undecodable"
        /\ Contains(log, <<"Failed to decode code">>)

\* what the code element that opens at position p of the text h shows: the text
\* between its opening tag and its closing tag
CodeDisplay(h, p) ==
    LET e == CodeElement(h, p)
    IN SubSeq(e, IndexOfFrom(e, <<">">>, 1) + 1, Len(e))

\* what the code elements of the text h show, in order
CodeDisplays(h) == [k \in 1..Len(CodeElements(h)) |-> CodeDisplay(h, CodeElements(h)[k])]

\* C26: the cleanup at the end of processResponse leaves what the code elements
\* show as convertMarkdownToHTML returned it: indentation and the blanks between the
\* words of the code are the same before and after.
C26_CleanupKeepsCode ==
    impl = "template" /\ result.status = "fulfilled" =>
        CodeDisplays(result.value) = CodeDisplays(htmlResponse)

\* the activations whose fallback copy has run
FallbackCopies == {k \in 1..Len(copies) : copies[k].fallback # "none"}

\* C27: the fallback copy leaves no textarea behind: whatever the copy command did,
\* the body holds no textarea once fallbackCopyTextToClipboard has returned,
\* after any number of fallback copies.
C27_NoTextareaLeft ==
    textareas = 0

\* the fallback copy has run with a copy command that threw, and again with one
\* that did not
C27_Witness ==
    /\ \E k \in FallbackCopies : copies[k].fallback = "throws"
    /\ \E k \in FallbackCopies : copies[k].fallback # "throws"

\* the text of block b that a copy is to put on the clipboard
BlockText(b) == IF impl = "template" THEN page[b].original ELSE page[b].innerText

\* the blocks whose activation this step starts or carries on
ActingBlocks ==
    {copies'[k].by : k \in {j \in 1..Len(copies') : j > Len(copies) \/ copies'[j] # copies[j]}}

\* C28: a step of the copy of one block changes the control of that block only and
\* puts the text of that block only on the clipboard: a control changes when an
\* activation of its own block acknowledges or when its own timer fires, a new
\* timer belongs to the block of the activation, and the clipboard gets the text
\* of the block of the activation; all other controls stay as they were.
C28_OtherControlsUnchanged ==
    [][ /\ \A t \in 1..Len(button) :
               button'[t] # button[t]
                   => \/ t \in ActingBlocks
                      \/ timers # <<>> /\ timers' = Tail(timers) /\ Head(timers).target = t
        /\ Len(timers') > Len(timers) => timers'[Len(timers')].target \in ActingBlocks
        /\ clipboard' # clipboard
               => clipboard'.by \in ActingBlocks /\ clipboard'.text = BlockText(clipboard'.by)
      ]_vars

====
